---- MODULE Spec2Model ----
(***************************************************************************)
(* k8s-athenz-syncer: the reconciliation controller (work queue, worker,   *)
(* sync routine), the rate limiter's failure counters, the two polling     *)
(* loops, the two informers and the name mapping they all rely on.         *)
(*                                                                         *)
(* Names (namespaces, Athenz domains) are sequences of one-character       *)
(* strings, so that the mapping functions are computed as the code         *)
(* computes them.                                                          *)
(***************************************************************************)
EXTENDS Integers, Sequences, FiniteSets, TLC

\* ------------------------------------------------------------------ bounds
\* Number of changes the environment (cluster users, the Athenz service) makes.
MaxEnv == 1
\* The per-item counter of the rate limiter saturates here (>= workerQueueRetry).
MaxRequeues == 3
\* The admissions one run of the queue on its own may see.
MaxAdds == 5
\* The rate limiter's delayInterval in ticks of the model's clock (with 2, a
\* tick is 125 ms of the 250 ms the tests and the flag's default use).
delayInterval == 2

\* --------------------------------------------------------------- constants
workerQueueRetry == 3

\* "No such object" for upstream domains and stored resources, "no name" for
\* names.
Absent == [absent |-> TRUE]
NoName == <<>>
NoTrust == <<>>
None == "none"
\* No call of CreateUpdateAthenzDomain made yet.
NoCall == [snapshot |-> Absent, op |-> None, err |-> FALSE]
\* No thread holds the lock.
Free == "free"
\* ProcessTrustDomain has not returned yet.
NoOutput == [pending |-> TRUE]
\* The empty cursor "", and the start of time.Time's Unix epoch.
NoCursor == <<>>
Epoch == 0

\* ------------------------------------------------------------ configuration
adminDomain == <<"k">>
systemNamespaces == {}

\* The namespaces the operator marks as never to be synced.
excludeNamespaces == {<<"a", "-", "b">>}

\* ------------------------------------------------------------- string helpers
HasPrefix(s, p) ==
    /\ Len(p) <= Len(s)
    /\ SubSeq(s, 1, Len(p)) = p

TrimPrefix(s, p) ==
    IF HasPrefix(s, p) THEN SubSeq(s, Len(p) + 1, Len(s)) ELSE s

RECURSIVE Replace(_, _, _)
Replace(s, old, new) ==
    IF Len(s) < Len(old) \/ Len(old) = 0 THEN s
    ELSE IF HasPrefix(s, old)
         THEN new \o Replace(SubSeq(s, Len(old) + 1, Len(s)), old, new)
         ELSE <<Head(s)>> \o Replace(Tail(s), old, new)

\* ------------------------------------------------------------------- util.go
isSystemNamespace(ns) == ns \in systemNamespaces

DomainToNamespace(domain) ==
    IF adminDomain # <<>> /\ HasPrefix(domain, adminDomain)
    THEN TrimPrefix(domain, adminDomain \o <<".">>)
    ELSE Replace(Replace(domain, <<"-">>, <<"-", "-">>), <<".">>, <<"-">>)

NamespaceToDomain(ns) ==
    IF isSystemNamespace(ns)
    THEN adminDomain \o <<".">> \o ns
    ELSE Replace(Replace(ns, <<"-">>, <<".">>), <<".", ".">>, <<"-">>)

IsAdminDomain(domain) == domain = adminDomain

IsNamespaceExcluded(ns) == ns \in excludeNamespaces

GetSystemNSDomains == { NamespaceToDomain(ns) : ns \in systemNamespaces }

\* ------------------------------------------------------------------ universe
NsA == <<"a", "-", "b">>
DomA == <<"a", ".", "b">>
DomT == <<"t">>
DomX == <<"k", ".", "a", "-", "b">>

Namespaces == {NsA} \cup systemNamespaces
Domains == {DomA, DomT, DomX, adminDomain} \cup GetSystemNSDomains

\* Trust targets the upstream roles may name, and the domains whose upstream
\* content changes.
TrustTargets == {DomT}
\* A queue item is an interface value: its dynamic type and its value.
Key(name) == [string |-> TRUE, value |-> name]
\* A key that is no string, and the value of a worker that holds no item.
NotAString == [string |-> FALSE, value |-> NoName]
NoItem == [string |-> TRUE, value |-> NoName]
\* The items given to the queue on its own.
WqItems == {Key(DomA), Key(DomT), NotAString}
\* The object of a watch event: a typed object with its name and roles, a
\* value without metadata, or a tombstone with the key it records and what it
\* holds.
BareObject == [shape |-> "bare", name |-> NoName, holds |-> "none", spec |-> <<>>]
EvNames(handler) == IF handler = "ns" THEN {NsA} ELSE {DomA, DomT}
EvSpecs(handler) == IF handler = "ns" THEN {<<>>} ELSE {<<>>, <<DomT>>}
EvObjects(handler) ==
    {[shape |-> "object", name |-> n, holds |-> "none", spec |-> sp] :
        n \in EvNames(handler), sp \in EvSpecs(handler)}
    \cup {BareObject}
    \cup {[shape |-> "tombstone", name |-> n, holds |-> "object", spec |-> sp] :
        n \in EvNames(handler), sp \in EvSpecs(handler)}
    \cup {[shape |-> "tombstone", name |-> n, holds |-> "bare", spec |-> <<>>] :
        n \in EvNames(handler)}
Events ==
    UNION {[handler : {h}, type : {"add", "update", "delete"}, obj : EvObjects(h)] :
              h \in {"ns", "cr"}}
NoEvent == [handler |-> "none", type |-> "none", obj |-> BareObject]
\* The values the trustDomain index may hold.
IndexValues == {DomT, DomX}
UpstreamDomains == {DomA, DomT}

\* A domain snapshot is the sequence of its roles' trust targets (NoTrust for a
\* role that lists members); a stored resource is the snapshot plus the status
\* message.
Snapshots == UNION { [1..n -> {NoTrust} \cup TrustTargets] : n \in 0..MaxEnv }
NoMsg == ""
ErrMsg == "error"

\* --------------------------------------------------------------------- state
VARIABLES
    env,        \* changes the environment has made so far
    stopCh,     \* the shared stop signal is closed
    nsServer,   \* namespaces of the cluster
    nsCache,    \* nsIndexInformer's store
    nsDirty,    \* namespaces with a watch event not yet delivered
    nsSynced,   \* nsIndexInformer.HasSynced
    zms,        \* upstream: domain -> [roles] or Absent
    changed,    \* upstream domains modified after the cron's etag
    crServer,   \* AthenzDomain resources of the cluster: domain -> [spec, msg] or Absent
    crCache,    \* CrIndexInformer's store
    crDirty,    \* resources written since the informer's last delivery
    crSynced,   \* CrIndexInformer.HasSynced
    idxVals,    \* every value the trustDomain index has held
    queue,      \* workqueue: the items admitted and not yet handed to the worker
    shutdown,   \* workqueue: ShutDown was called
    failures,   \* RateLimiter.failures
    runPc,      \* Controller.Run: new, waitSync, running, returned, crashed
    wPc,        \* the worker: off, get, fetch, synced, crashed
    wKey,       \* the item the worker is processing
    updPc,      \* Cron.UpdateCron: off, on, stopped
    resPc,      \* Cron.FullResync: off, on, stopped
    wRes,       \* what sync did and returned, until processNextItem ends
    attempts,   \* history: per item, its failed syncs in a row (kept by WorkerDoneCounted)
    \* CRUtil on its own, with one domain's resource in full detail
    applyStore, \* the cluster's resource: [spec, msg, rv] or Absent
    applyCache, \* CrIndexInformer's copy of it
    applyLast,  \* the last CreateUpdateAthenzDomain call: [snapshot, op, err]
    applyCalls, \* the calls made so far
    \* ProcessTrustDomain on its own
    trustIn,    \* the call's input: [content, roleName], content the store's entry for the trust domain
    trustOut,   \* what the call returned: [members, err], or NoOutput before it
    \* RateLimiter on its own, with its clock
    clock,        \* time.Now(), in ticks
    currentDelay, \* RateLimiter.currentDelay
    limLock,      \* RateLimiter.failuresLock: the thread that holds it, or Free
    limLog,       \* the When calls made: [by, at, before, delay, after]
    limSince,     \* history: per item, the When calls since its last Forget
    \* Cron's cursor on its own, with the times of the upstream changes
    cronPc,       \* Run after the cache sync: new before SetEtag, on once UpdateCron runs
    etag,         \* Cron.etag, the cursor of the incremental loop
    sink,         \* the ConfigMap athenzcall-config: [latest_contact] or Absent
    upNow,        \* the upstream service's clock
    upMod,        \* upstream: per domain, the time of its last modification
    crMod,        \* the store: per resource, Spec.Domain.Modified of its snapshot
    \* the informer's indexer on its own
    indices,      \* the trustDomain index: per indexed value, the keys of the objects that carry it
    \* Util's two conversions on their own
    mapIn,        \* the names given: [a, b]
    mapOut,       \* what the conversions returned for them, or NoOutput before the call
    \* the work queue and processNextItem on their own
    wq,           \* the queue: [waiting, queue, dirty, processing, shuttingDown]
    wqWorker,     \* the worker: [pc, key]
    wqHist,       \* history: [adds, gets, dones], gets and dones per item
    evLast,       \* history: the last watch event delivered, and its index values
    tampered      \* history: the domains whose resource a third party changed

\* The controller's state.
ctlVars == <<env, stopCh, nsServer, nsCache, nsDirty, nsSynced, zms, changed,
             crServer, crCache, crDirty, crSynced, idxVals, queue, shutdown, failures,
             runPc, wPc, wKey, wRes, updPc, resPc, attempts>>

applyVars == <<applyStore, applyCache, applyLast, applyCalls>>

\* The state of the components that are exercised on their own.
trustVars == <<trustIn, trustOut>>

limiterVars == <<clock, currentDelay, limLock, limLog, limSince>>

cursorVars == <<cronPc, etag, sink, upNow, upMod, crMod>>

\* The components added to the development after the first three.
indexVars == <<indices>>

mapVars == <<mapIn, mapOut>>

wqVars == <<wq, wqWorker, wqHist, evLast>>

restVars == <<cursorVars, indexVars, mapVars, wqVars, tampered>>

unitVars == <<applyVars, trustVars, limiterVars, restVars>>

vars == <<ctlVars, unitVars>>

envVars == <<env, nsServer, zms>>
nsVars == <<nsCache, nsDirty, nsSynced>>
crVars == <<crServer, crCache, crDirty, crSynced, idxVals>>
queueVars == <<queue, shutdown, failures>>
workerVars == <<wPc, wKey, wRes, attempts>>
cronVars == <<updPc, resPc>>

Min(a, b) == IF a < b THEN a ELSE b

\* A Forget that empties the whole map.
ForgetEvery(f, item) == [d \in DOMAIN f |-> 0]

\* ------------------------------------------------------------- ratelimiter.go
\* When(item) called n times: the item's counter grows by n (saturating at the
\* model's bound, which the comparison with workerQueueRetry cannot tell from a
\* larger count). The delay it returns is time only.
When(f, item, n) == [f EXCEPT ![item] = Min(@ + n, MaxRequeues)]

Forget(f, item) == [f EXCEPT ![item] = 0]

NumRequeues(f, item) == f[item]

\* ------------------------------------------------------- workqueue (client-go)
\* The rate-limited queue as its callers see it: the set of items admitted and
\* not yet handed out by Get. An admitted item waits out the delay When gave it
\* and is then ready; admissions of an item already waiting or ready coalesce,
\* and an item admitted while it is processed is handed out again after Done.
\* AddRateLimited for a bag of items (cnt[d] calls for d): every call counts in
\* When; nothing is admitted once the queue is shutting down.
WhenBag(f, cnt) == [d \in Domains |-> Min(f[d] + cnt[d], MaxRequeues)]

AddAfterBag(q, cnt) ==
    IF shutdown THEN q ELSE q \cup {d \in Domains : cnt[d] > 0}

One(d) == [e \in Domains |-> IF e = d THEN 1 ELSE 0]

AddRateLimited(d) ==
    /\ failures' = WhenBag(failures, One(d))
    /\ queue' = AddAfterBag(queue, One(d))
    /\ UNCHANGED shutdown

\* ------------------------------------------------------------------ cr.go
TrustDomainIndexFunc(obj) == { obj.spec[i] : i \in 1..Len(obj.spec) } \ {NoTrust}

IsTrustDomain(domainName) ==
    \E e \in Domains :
        /\ crCache[e] # Absent
        /\ domainName \in TrustDomainIndexFunc(crCache[e])

\* ----------------------------------------------------------------- cron.go
ValidateDomain(domain) ==
    \/ DomainToNamespace(domain) \in nsCache
    \/ IsAdminDomain(domain)
    \/ IsTrustDomain(domain)

\* A RemoveAthenzDomain that never calls Delete.
RemoveWithoutDelete(domain, apiFail) ==
    [srv |-> crServer, dty |-> crDirty, op |-> "none", err |-> FALSE]

\* RemoveAthenzDomain: delete the resource the store knows; apiFail is the
\* cluster refusing the call.
RemoveAthenzDomain(domain, apiFail) ==
    IF crCache[domain] = Absent
    THEN [srv |-> crServer, dty |-> crDirty, op |-> "none", err |-> FALSE]
    ELSE IF apiFail \/ crServer[domain] = Absent
         THEN [srv |-> crServer, dty |-> crDirty, op |-> "deletefail", err |-> TRUE]
         ELSE [srv |-> [crServer EXCEPT ![domain] = Absent],
               dty |-> crDirty \cup {domain}, op |-> "delete", err |-> FALSE]

\* An updateCR that writes without comparing.
updateCRWithoutSkip(domain, object, newCR, apiFail) ==
    IF object = Absent
    THEN [srv |-> crServer, dty |-> crDirty, op |-> "exists", err |-> TRUE]
    ELSE IF apiFail \/ crServer[domain] = Absent
         THEN [srv |-> crServer, dty |-> crDirty, op |-> "updatefail", err |-> TRUE]
         ELSE IF domain \in crDirty
              THEN [srv |-> crServer, dty |-> crDirty, op |-> "conflict", err |-> TRUE]
              ELSE [srv |-> [crServer EXCEPT ![domain] = newCR],
                    dty |-> crDirty \cup {domain}, op |-> "update", err |-> FALSE]

\* updateCR: skip when content and status are equal, else Update with the
\* resource version of the store's copy (stale exactly when the resource was
\* written since the informer's last delivery).
updateCR(domain, object, newCR, apiFail) ==
    IF object = Absent
    THEN [srv |-> crServer, dty |-> crDirty, op |-> "exists", err |-> TRUE]
    ELSE IF object.spec = newCR.spec /\ object.msg = newCR.msg
         THEN [srv |-> crServer, dty |-> crDirty, op |-> "skip", err |-> FALSE]
         ELSE IF apiFail \/ crServer[domain] = Absent
              THEN [srv |-> crServer, dty |-> crDirty, op |-> "updatefail", err |-> TRUE]
              ELSE IF domain \in crDirty
                   THEN [srv |-> crServer, dty |-> crDirty, op |-> "conflict", err |-> TRUE]
                   ELSE [srv |-> [crServer EXCEPT ![domain] = newCR],
                         dty |-> crDirty \cup {domain}, op |-> "update", err |-> FALSE]

CreateUpdateAthenzDomain(domain, domainData, apiFail) ==
    LET newCR == [spec |-> domainData.roles, msg |-> NoMsg]
        obj == crCache[domain]
    IN  IF obj = Absent /\ crServer[domain] = Absent
        THEN IF apiFail
             THEN [srv |-> crServer, dty |-> crDirty, op |-> "createfail", err |-> TRUE]
             ELSE [srv |-> [crServer EXCEPT ![domain] = newCR],
                   dty |-> crDirty \cup {domain}, op |-> "create", err |-> FALSE]
        ELSE updateCR(domain, obj, newCR, apiFail)

\* ---------------------------------------------------------------- environment
alive == runPc # "crashed"

NsCreate(n) ==
    /\ env < MaxEnv
    /\ n \notin nsServer
    /\ env' = env + 1
    /\ nsServer' = nsServer \cup {n}
    /\ nsDirty' = nsDirty \cup {n}
    /\ UNCHANGED <<zms, stopCh, changed, nsCache, nsSynced, crVars, queueVars,
                   runPc, workerVars, cronVars>>
    /\ UNCHANGED unitVars

NsDelete(n) ==
    /\ env < MaxEnv
    /\ n \in nsServer
    /\ env' = env + 1
    /\ nsServer' = nsServer \ {n}
    /\ nsDirty' = nsDirty \cup {n}
    /\ UNCHANGED <<zms, stopCh, changed, nsCache, nsSynced, crVars, queueVars,
                   runPc, workerVars, cronVars>>
    /\ UNCHANGED unitVars

\* An upstream user adds a role to a domain (zms PutRole).
UpstreamPutRole(d, trust) ==
    /\ env < MaxEnv
    /\ zms[d] # Absent
    /\ env' = env + 1
    /\ zms' = [zms EXCEPT ![d] = [roles |-> Append(@.roles, trust)]]
    /\ changed' = changed \cup {d}
    /\ UNCHANGED <<nsServer, stopCh, nsVars, crVars, queueVars, runPc,
                   workerVars, cronVars>>
    /\ UNCHANGED unitVars

\* An upstream user deletes a domain.
UpstreamDelete(d) ==
    /\ env < MaxEnv
    /\ zms[d] # Absent
    /\ env' = env + 1
    /\ zms' = [zms EXCEPT ![d] = Absent]
    /\ changed' = changed \ {d}
    /\ UNCHANGED <<nsServer, stopCh, nsVars, crVars, queueVars, runPc,
                   workerVars, cronVars>>
    /\ UNCHANGED unitVars

\* The process is told to stop: main closes stopCh.
Stop ==
    /\ ~stopCh
    /\ stopCh' = TRUE
    /\ UNCHANGED <<envVars, changed, nsVars, crVars, queueVars, runPc,
                   workerVars, cronVars>>
    /\ UNCHANGED unitVars

\* ------------------------------------------------------------------ informers
\* nsIndexInformer's initial list: the store is filled and AddFunc runs for
\* every namespace listed.
NsInitialList ==
    /\ alive /\ ~stopCh
    /\ runPc # "new"
    /\ ~nsSynced
    /\ nsCache' = nsServer
    /\ nsDirty' = {}
    /\ nsSynced' = TRUE
    /\ LET cnt == [d \in Domains |->
                     Cardinality({n \in nsServer : NamespaceToDomain(n) = d})]
       IN  /\ failures' = WhenBag(failures, cnt)
           /\ queue' = AddAfterBag(queue, cnt)
    /\ UNCHANGED shutdown
    /\ UNCHANGED <<envVars, stopCh, changed, crVars, runPc, workerVars, cronVars>>
    /\ UNCHANGED unitVars

\* A namespace watch event (add, update, delete): the store follows the
\* cluster and nsinformerhandler runs.
NsEvent(n) ==
    /\ alive /\ ~stopCh
    /\ nsSynced
    /\ n \in nsDirty
    /\ nsCache' = IF n \in nsServer THEN nsCache \cup {n} ELSE nsCache \ {n}
    /\ nsDirty' = nsDirty \ {n}
    /\ AddRateLimited(NamespaceToDomain(n))
    /\ UNCHANGED <<nsSynced, envVars, stopCh, changed, crVars, runPc,
                   workerVars, cronVars>>
    /\ UNCHANGED unitVars

\* CrIndexInformer's initial list.
CrInitialList ==
    /\ alive /\ ~stopCh
    /\ runPc # "new"
    /\ ~crSynced
    /\ crCache' = crServer
    /\ crDirty' = {}
    /\ crSynced' = TRUE
    /\ idxVals' = idxVals \cup UNION { TrustDomainIndexFunc(crServer[d]) :
                                       d \in {e \in Domains : crServer[e] # Absent} }
    /\ LET cnt == [d \in Domains |-> IF crServer[d] # Absent THEN 1 ELSE 0]
       IN  /\ failures' = WhenBag(failures, cnt)
           /\ queue' = AddAfterBag(queue, cnt)
    /\ UNCHANGED shutdown
    /\ UNCHANGED <<crServer, envVars, stopCh, changed, nsVars, runPc,
                   workerVars, cronVars>>
    /\ UNCHANGED unitVars

\* An AthenzDomain watch event: the store and its index follow the cluster and
\* crinformerhandler runs.
CrEvent(d) ==
    /\ alive /\ ~stopCh
    /\ crSynced
    /\ d \in crDirty
    /\ crCache' = [crCache EXCEPT ![d] = crServer[d]]
    /\ crDirty' = crDirty \ {d}
    /\ idxVals' = idxVals \cup
                  (IF crServer[d] = Absent THEN {} ELSE TrustDomainIndexFunc(crServer[d]))
    /\ AddRateLimited(d)
    /\ UNCHANGED <<crServer, crSynced, envVars, stopCh, changed, nsVars, runPc,
                   workerVars, cronVars>>
    /\ UNCHANGED unitVars

\* ------------------------------------------------------------------- cron.go
\* An AddAdminSystemDomains that adds nothing.
AddNoDomains == [d \in Domains |-> 0]

\* The calls AddAdminSystemDomains makes, as a bag.
AddAdminSystemDomains ==
    [d \in Domains |->
        (IF adminDomain # <<>> /\ d = adminDomain THEN 1 ELSE 0)
        + Cardinality({ns \in systemNamespaces : NamespaceToDomain(ns) = d})]

\* One successful requestCall of UpdateCron: the changed domains that pass
\* ValidateDomain are enqueued and the etag advances.
UpdateCron ==
    /\ alive /\ ~stopCh
    /\ updPc = "on"
    /\ changed # {}
    /\ LET cnt == [d \in Domains |->
                     IF d \in changed /\ ValidateDomain(d) THEN 1 ELSE 0]
       IN  /\ failures' = WhenBag(failures, cnt)
           /\ queue' = AddAfterBag(queue, cnt)
    /\ changed' = {}
    /\ UNCHANGED shutdown
    /\ UNCHANGED <<envVars, stopCh, nsVars, crVars, runPc, workerVars, cronVars>>
    /\ UNCHANGED unitVars

\* One pass of FullResync.
FullResync ==
    /\ alive /\ ~stopCh
    /\ resPc = "on"
    /\ LET admin == AddAdminSystemDomains
           cnt == [d \in Domains |->
                     Cardinality({n \in nsCache : NamespaceToDomain(n) = d})
                     + admin[d]
                     + (IF d \in idxVals /\ crCache[d] # Absent THEN 1 ELSE 0)]
       IN  /\ failures' = WhenBag(failures, cnt)
           /\ queue' = AddAfterBag(queue, cnt)
    /\ UNCHANGED shutdown
    /\ UNCHANGED <<envVars, stopCh, changed, nsVars, crVars, runPc, workerVars,
                   cronVars>>
    /\ UNCHANGED unitVars

\* Both loops leave their select when stopCh is closed.
UpdateCronStop ==
    /\ alive /\ stopCh
    /\ updPc = "on"
    /\ updPc' = "stopped"
    /\ UNCHANGED <<envVars, stopCh, changed, nsVars, crVars, queueVars, runPc,
                   workerVars, resPc>>
    /\ UNCHANGED unitVars

FullResyncStop ==
    /\ alive /\ stopCh
    /\ resPc = "on"
    /\ resPc' = "stopped"
    /\ UNCHANGED <<envVars, stopCh, changed, nsVars, crVars, queueVars, runPc,
                   workerVars, updPc>>
    /\ UNCHANGED unitVars

\* ------------------------------------------------------------- controller.go
\* Run starts the two informers.
RunStart ==
    /\ runPc = "new"
    /\ runPc' = "waitSync"
    /\ UNCHANGED <<envVars, stopCh, changed, nsVars, crVars, queueVars,
                   workerVars, cronVars>>
    /\ UNCHANGED unitVars

\* WaitForCacheSync gives up when stopCh is closed: Run returns and the
\* deferred ShutDown runs.
RunSyncFail ==
    /\ runPc = "waitSync"
    /\ stopCh
    /\ runPc' = "returned"
    /\ shutdown' = TRUE
    /\ UNCHANGED <<queue, failures>>
    /\ UNCHANGED <<envVars, stopCh, changed, nsVars, crVars, workerVars, cronVars>>
    /\ UNCHANGED unitVars

\* A Run that does not wait for the caches.
RunWithoutCacheSync ==
    /\ runPc = "waitSync"
    /\ ~stopCh
    /\ runPc' = "running"
    /\ updPc' = "on"
    /\ resPc' = "on"
    /\ wPc' = "get"
    /\ failures' = When(failures, adminDomain, 1)
    /\ queue' = queue \cup {adminDomain}
    /\ UNCHANGED shutdown
    /\ UNCHANGED <<envVars, stopCh, changed, nsVars, crVars, wKey, wRes, attempts>>
    /\ UNCHANGED unitVars

\* Both caches have synced: the two cron loops start, the admin and system
\* domains are enqueued, and wait.Until calls runWorker.
RunAfterSync ==
    /\ runPc = "waitSync"
    /\ ~stopCh
    /\ nsSynced /\ crSynced
    /\ runPc' = "running"
    /\ updPc' = "on"
    /\ resPc' = "on"
    /\ wPc' = "get"
    /\ failures' = WhenBag(failures, AddAdminSystemDomains)
    /\ queue' = AddAfterBag(queue, AddAdminSystemDomains)
    /\ UNCHANGED shutdown
    /\ UNCHANGED <<envVars, stopCh, changed, nsVars, crVars, wKey, wRes, attempts>>
    /\ UNCHANGED unitVars

\* What sync did and returned, kept from its return to the end of
\* processNextItem.
Result(valid, fetch, op, err) ==
    [valid |-> valid, fetch |-> fetch, op |-> op, err |-> err]

NoResult == Result(FALSE, None, None, FALSE)

\* A processNextItem whose sync does not validate the domain.
WorkerGetWithoutValidation(d, apiFail) ==
    /\ wPc = "get"
    /\ d \in queue
    /\ wKey' = d
    /\ queue' = queue \ {d}
    /\ wPc' = "fetch"
    /\ UNCHANGED <<shutdown, failures, runPc, wRes, crServer, crDirty>>
    /\ UNCHANGED <<envVars, stopCh, changed, nsVars, crCache, crSynced, idxVals,
                   cronVars, attempts>>
    /\ UNCHANGED unitVars

\* processNextItem up to the ZMS call: queue.Get hands out an item whose delay
\* has elapsed (or reports the shutdown of an empty queue), then sync validates
\* the domain; an invalid domain is removed and sync returns.
WorkerGet(d, apiFail) ==
    /\ wPc = "get"
    /\ queue # {} \/ shutdown
    /\ IF queue = {}
       THEN /\ wPc' = "off"
            /\ runPc' = "returned"
            /\ UNCHANGED <<queueVars, wKey, wRes, crServer, crDirty>>
       ELSE LET r == RemoveAthenzDomain(d, apiFail)
            IN  /\ d \in queue
                /\ wKey' = d
                /\ queue' = queue \ {d}
                /\ UNCHANGED <<shutdown, failures, runPc>>
                /\ IF ValidateDomain(d)
                   THEN /\ wPc' = "fetch"
                        /\ UNCHANGED <<wRes, crServer, crDirty>>
                   ELSE /\ wPc' = "synced"
                        /\ wRes' = Result(FALSE, None, r.op, r.err)
                        /\ crServer' = r.srv
                        /\ crDirty' = r.dty
    /\ UNCHANGED <<envVars, stopCh, changed, nsVars, crCache, crSynced, idxVals,
                   cronVars, attempts>>
    /\ UNCHANGED unitVars

\* What zmsGetSignedDomains can answer for a domain: its snapshot when it
\* exists upstream, a 404 or an empty list when it does not, and at any time an
\* error: a ResourceError with another code, or an error of another type.
FetchKinds(d) ==
    (IF zms[d] # Absent THEN {"ok"} ELSE {"404", "empty"}) \cup {"rdlerr", "neterr"}

\* A cascade that follows the trust targets of every domain it syncs.
CascadeEveryHop(domain, domainData) ==
    [t \in Domains |->
        IF t # domain /\ crCache[t] = Absent
        THEN Cardinality({i \in 1..Len(domainData.roles) : domainData.roles[i] = t})
        ELSE 0]

\* The trust domains sync enqueues after a successful CreateUpdateAthenzDomain,
\* as a bag.
Cascade(domain, domainData) ==
    [t \in Domains |->
        IF /\ t # domain
           /\ crCache[t] = Absent
           /\ DomainToNamespace(domain) \in nsCache \/ IsAdminDomain(domain)
        THEN Cardinality({i \in 1..Len(domainData.roles) : domainData.roles[i] = t})
        ELSE 0]

NoCascade == [t \in Domains |-> 0]

\* A call that puts the stored resource of the domain back upstream.
UpstreamAfterPut(d) ==
    [zms EXCEPT ![d] = IF crCache[d] # Absent THEN [roles |-> crCache[d].spec] ELSE @]

\* zmsGetSignedDomains is a read (GetSignedDomains): upstream is as it was.
UpstreamAfterGet(d) == zms

\* The rest of sync, from the answer of the ZMS call to its return. With an
\* error that is a ResourceError other than 404, err is shadowed by
\* GetCRByName's nil error: when the store holds the resource, err.Error() is a
\* nil dereference and the process dies (the deferred queue.Done and ShutDown
\* run); when it holds none, sync returns nil.
WorkerFetch(kind, apiFail) ==
    /\ wPc = "fetch"
    /\ kind \in FetchKinds(wKey)
    /\ LET d == wKey
           rm == RemoveAthenzDomain(d, apiFail)
           cu == CreateUpdateAthenzDomain(d, zms[d], apiFail)
           cnt == IF kind = "ok" /\ ~cu.err THEN Cascade(d, zms[d]) ELSE NoCascade
       IN  IF kind = "rdlerr" /\ crCache[d] # Absent
           THEN /\ wPc' = "crashed"
                /\ runPc' = "crashed"
                /\ shutdown' = TRUE
                /\ wRes' = Result(TRUE, kind, "none", TRUE)
                /\ UNCHANGED <<queue, failures, crServer, crDirty>>
           ELSE /\ wPc' = "synced"
                /\ wRes' = CASE kind = "neterr" -> Result(TRUE, kind, "none", TRUE)
                             [] kind = "rdlerr" -> Result(TRUE, kind, "none", FALSE)
                             [] kind \in {"404", "empty"} -> Result(TRUE, kind, rm.op, rm.err)
                             [] kind = "ok" -> Result(TRUE, kind, cu.op, cu.err)
                /\ crServer' = CASE kind \in {"404", "empty"} -> rm.srv
                                 [] kind = "ok" -> cu.srv
                                 [] OTHER -> crServer
                /\ crDirty' = CASE kind \in {"404", "empty"} -> rm.dty
                                [] kind = "ok" -> cu.dty
                                [] OTHER -> crDirty
                /\ failures' = WhenBag(failures, cnt)
                /\ queue' = AddAfterBag(queue, cnt)
                /\ UNCHANGED <<runPc, shutdown>>
    /\ UNCHANGED wKey
    /\ zms' = UpstreamAfterGet(wKey)
    /\ UNCHANGED <<env, nsServer, stopCh, changed, nsVars, crCache, crSynced, idxVals,
                   cronVars, attempts>>
    /\ UNCHANGED unitVars

\* The tail of processNextItem after sync returned: the retry decision, then
\* the deferred queue.Done.
Requeue == wRes.err /\ NumRequeues(failures, wKey) < workerQueueRetry

processNextItemTail ==
    /\ wPc = "synced"
    /\ failures' = IF ~wRes.err THEN failures
                   ELSE IF Requeue THEN When(failures, wKey, 1)
                        ELSE Forget(failures, wKey)
    /\ queue' = IF Requeue THEN AddAfterBag(queue, One(wKey)) ELSE queue
    /\ wPc' = "get"
    /\ wKey' = NoName
    /\ wRes' = NoResult
    /\ UNCHANGED shutdown
    /\ UNCHANGED <<envVars, stopCh, changed, nsVars, crVars, runPc, cronVars>>
    /\ UNCHANGED unitVars

WorkerDone ==
    /\ processNextItemTail
    /\ UNCHANGED attempts

\* The same step, observed: the history counts the item's failed syncs in a
\* row, from its last success or drop.
WorkerDoneCounted ==
    /\ processNextItemTail
    /\ attempts' = [attempts EXCEPT ![wKey] = IF Requeue THEN @ + 1 ELSE 0]

\* ------------------------------------------------------------- specification
\* The upstream service at a start: the domains of the set exist, without
\* roles.
Upstream(present) ==
    [d \in Domains |-> IF d \in present THEN [roles |-> <<>>] ELSE Absent]

\* The resources an earlier run of the controller left in the cluster.
LeftOver(present) ==
    [d \in Domains |-> IF d \in present THEN [spec |-> <<>>, msg |-> NoMsg] ELSE Absent]

\* The components exercised on their own, at rest.
ApplyIdle ==
    /\ applyStore = Absent
    /\ applyCache = Absent
    /\ applyLast = NoCall
    /\ applyCalls = 0

TrustIdle ==
    /\ trustIn = [content |-> Absent, roleName |-> NoName]
    /\ trustOut = NoOutput

\* NewRateLimiter: currentDelay is one interval in the past.
LimiterNew ==
    /\ clock = delayInterval
    /\ currentDelay = clock - delayInterval
    /\ limLock = Free
    /\ limLog = <<>>
    /\ limSince = [d \in Domains |-> 0]

\* Run has not reached SetEtag; no ConfigMap, and upstream holds no domain.
CursorIdle ==
    /\ cronPc = "new"
    /\ etag = NoCursor
    /\ sink = Absent
    /\ upNow = Epoch
    /\ upMod = [d \in Domains |-> Epoch]
    /\ crMod = [d \in Domains |-> Epoch]

\* The index of an empty store.
IndexIdle == indices = [v \in IndexValues |-> {}]

MapIdle ==
    /\ mapIn = [a |-> NoName, b |-> NoName]
    /\ mapOut = NoOutput

\* A new queue, its worker not started.
WqIdle ==
    /\ wq = [waiting |-> {}, queue |-> <<>>, dirty |-> {}, processing |-> {},
             shuttingDown |-> FALSE]
    /\ wqWorker = [pc |-> "get", key |-> NoItem]
    /\ wqHist = [adds |-> 0, gets |-> [i \in WqItems |-> 0], dones |-> [i \in WqItems |-> 0]]
    /\ evLast = [ev |-> NoEvent, index |-> [panic |-> FALSE, values |-> <<>>]]

RestIdle ==
    /\ CursorIdle
    /\ IndexIdle
    /\ MapIdle
    /\ WqIdle
    /\ tampered = {}

UnitsIdle ==
    /\ ApplyIdle
    /\ TrustIdle
    /\ LimiterNew
    /\ RestIdle

\* The controller starts in one of two worlds. In the first, the namespace's
\* domain, a domain it may delegate to and the admin domain exist upstream and
\* the cluster holds no resource. In the second, upstream holds the admin
\* domain and a sub-domain of it, the namespace's domain was deleted upstream
\* and its resource is left over in the cluster.
Worlds ==
    /\ nsServer \in SUBSET Namespaces
    /\ \/ /\ zms = Upstream({DomA, DomT, adminDomain})
          /\ crServer = LeftOver({})
       \/ /\ zms = Upstream({DomX, adminDomain})
          /\ crServer = LeftOver({DomA})

\* The controller as NewController leaves it.
ControllerNew ==
    /\ env = 0
    /\ stopCh = FALSE
    /\ nsCache = {}
    /\ nsDirty = {}
    /\ nsSynced = FALSE
    /\ changed = {d \in Domains : zms[d] # Absent}
    /\ crCache = [d \in Domains |-> Absent]
    /\ crDirty = {}
    /\ crSynced = FALSE
    /\ idxVals = {}
    /\ queue = {}
    /\ shutdown = FALSE
    /\ failures = [d \in Domains |-> 0]
    /\ runPc = "new"
    /\ wPc = "off"
    /\ wKey = NoName
    /\ updPc = "off"
    /\ resPc = "off"
    /\ wRes = NoResult
    /\ attempts = [d \in Domains |-> 0]

\* The controller constructed and not run, in a cluster without namespaces and
\* resources, upstream without domains.
ControllerOff ==
    /\ nsServer = {}
    /\ zms = Upstream({})
    /\ crServer = LeftOver({})
    /\ ControllerNew

Init ==
    /\ Worlds
    /\ ControllerNew
    /\ UnitsIdle

\* The controller's own steps while it runs, but the end of processNextItem.
Steps ==
    \/ NsInitialList
    \/ CrInitialList
    \/ \E d \in Domains : CrEvent(d)
    \/ UpdateCron
    \/ FullResync
    \/ RunStart
    \/ RunAfterSync
    \/ \E d \in Domains, apiFail \in BOOLEAN : WorkerGet(d, apiFail)
    \/ \E kind \in {"ok", "404", "empty", "rdlerr", "neterr"}, apiFail \in BOOLEAN :
          WorkerFetch(kind, apiFail)

Controller == Steps \/ WorkerDone

\* The cluster's users and the upstream service's users, and the namespace
\* events their changes cause.
Environment ==
    \/ \E n \in Namespaces : NsEvent(n)
    \/ \E n \in Namespaces : NsCreate(n)
    \/ \E n \in Namespaces : NsDelete(n)
    \/ \E d \in UpstreamDomains, t \in {NoTrust} \cup TrustTargets : UpstreamPutRole(d, t)
    \/ \E d \in UpstreamDomains : UpstreamDelete(d)

\* The stop signal and what only happens after it.
Shutdown ==
    \/ Stop
    \/ RunSyncFail
    \/ UpdateCronStop
    \/ FullResyncStop

\* The running system in a changing environment.
Next == Controller \/ Environment

Spec == Init /\ [][Next]_vars

\* The system from its start to its stop in a quiet environment.
NextStop == Controller \/ Shutdown

SpecStop == Init /\ [][NextStop]_vars

\* The controller alone, with the history of every item's failed syncs.
NextRetry == Steps \/ WorkerDoneCounted

SpecRetry == Init /\ [][NextRetry]_vars

\* --------------------------------------------- controller.go, one item's sync
\* The worker on its own: the controller runs, both stores are in step with
\* the cluster, and the queue holds one domain. The domain's upstream snapshot,
\* the namespaces and the resources stored are drawn, among them a domain that
\* is valid as a trust target only (DomT) and delegates further.
SyncRoles == UNION { [1..n -> {NoTrust, DomT, DomX}] : n \in 0..2 }

InitSync ==
    /\ env = 0
    /\ stopCh = FALSE
    /\ nsServer \in SUBSET Namespaces
    /\ nsCache = nsServer
    /\ nsDirty = {}
    /\ nsSynced = TRUE
    /\ \E d \in Domains, roles \in SyncRoles :
          /\ zms = [e \in Domains |-> IF e = d THEN [roles |-> roles] ELSE Absent]
          /\ queue = {d}
          /\ failures = One(d)
    /\ changed = {}
    /\ crServer \in [Domains -> {Absent, [spec |-> <<DomT>>, msg |-> NoMsg]}]
    /\ crCache = crServer
    /\ crDirty = {}
    /\ crSynced = TRUE
    /\ idxVals = IF \E e \in Domains : crServer[e] # Absent THEN {DomT} ELSE {}
    /\ shutdown = FALSE
    /\ runPc = "running"
    /\ wPc = "get"
    /\ wKey = NoName
    /\ updPc = "on"
    /\ resPc = "on"
    /\ wRes = NoResult
    /\ attempts = [d \in Domains |-> 0]
    /\ UnitsIdle

NextSync ==
    \/ \E d \in Domains, apiFail \in BOOLEAN : WorkerGet(d, apiFail)
    \/ \E kind \in {"ok", "404", "empty", "rdlerr", "neterr"}, apiFail \in BOOLEAN :
          WorkerFetch(kind, apiFail)
    \/ WorkerDone

SpecSync == InitSync /\ [][NextSync]_vars

\* ------------------------------------------------- cr.go, one resource in full
\* CreateUpdateAthenzDomain and UpdateErrorStatus called on their own, for one
\* domain, with the snapshot's content, key id and signatures told apart.
\* Calls of CRUtil in one run.
MaxApply == 2

\* zms.SignedDomain: the roles and the policy contents, the key id, and the two
\* signatures (of the domain and of its policies).
SignedSnapshots ==
    [roles : {<<>>, <<DomT>>}, policies : {"p0", "p1"}, keyId : {"key0", "key1"},
     signature : {"sig0", "sig1"}, policySignature : {"psig0", "psig1"}]

Called(snapshot, op, err) == [snapshot |-> snapshot, op |-> op, err |-> err]

\* A copy that blanks nothing.
MaskNothing(spec) == spec

\* updateCR's two copies with Signature and Domain.Policies.Signature blanked.
MaskSignatures(spec) == [spec EXCEPT !.signature = "", !.policySignature = ""]

\* An updateCR that compares the content only, not the status.
updateCRIgnoringStatus(object, newCR, apiFail) ==
    IF object = Absent
    THEN [store |-> applyStore, op |-> "exists", err |-> TRUE]
    ELSE IF MaskSignatures(object.spec) = MaskSignatures(newCR.spec)
         THEN [store |-> applyStore, op |-> "skip", err |-> FALSE]
         ELSE IF apiFail \/ applyStore = Absent
              THEN [store |-> applyStore, op |-> "updatefail", err |-> TRUE]
              ELSE IF object.rv # applyStore.rv
                   THEN [store |-> applyStore, op |-> "conflict", err |-> TRUE]
                   ELSE [store |-> [newCR EXCEPT !.rv = applyStore.rv + 1],
                         op |-> "update", err |-> FALSE]

\* updateCR: the write carries the resource version of the store's copy, and
\* the cluster refuses it when that is not the resource's current version.
updateCRSigned(object, newCR, apiFail) ==
    IF object = Absent
    THEN [store |-> applyStore, op |-> "exists", err |-> TRUE]
    ELSE IF /\ MaskSignatures(object.spec) = MaskSignatures(newCR.spec)
            /\ object.msg = newCR.msg
         THEN [store |-> applyStore, op |-> "skip", err |-> FALSE]
         ELSE IF apiFail \/ applyStore = Absent
              THEN [store |-> applyStore, op |-> "updatefail", err |-> TRUE]
              ELSE IF object.rv # applyStore.rv
                   THEN [store |-> applyStore, op |-> "conflict", err |-> TRUE]
                   ELSE [store |-> [newCR EXCEPT !.rv = applyStore.rv + 1],
                         op |-> "update", err |-> FALSE]

CreateUpdateSigned(domainData, apiFail) ==
    LET newCR == [spec |-> domainData, msg |-> NoMsg, rv |-> 0]
        obj == applyCache
    IN  IF obj = Absent /\ applyStore = Absent
        THEN IF apiFail
             THEN [store |-> applyStore, op |-> "createfail", err |-> TRUE]
             ELSE [store |-> [newCR EXCEPT !.rv = 1], op |-> "create", err |-> FALSE]
        ELSE updateCRSigned(obj, newCR, apiFail)

\* One call of CreateUpdateAthenzDomain.
ApplyCall(domainData, apiFail) ==
    /\ applyCalls < MaxApply
    /\ LET r == CreateUpdateSigned(domainData, apiFail)
       IN  /\ applyStore' = r.store
           /\ applyLast' = Called(domainData, r.op, r.err)
    /\ applyCalls' = applyCalls + 1
    /\ UNCHANGED applyCache
    /\ UNCHANGED <<ctlVars, trustVars, limiterVars, restVars>>

\* One call of UpdateErrorStatus with the store's copy, stamped with an error
\* text: an Update whose error is only logged.
ApplyErrorStatus(apiFail) ==
    /\ applyCalls < MaxApply
    /\ applyCache # Absent
    /\ applyStore' = IF apiFail \/ applyStore = Absent \/ applyCache.rv # applyStore.rv
                     THEN applyStore
                     ELSE [applyCache EXCEPT !.msg = ErrMsg, !.rv = applyStore.rv + 1]
    /\ applyLast' = NoCall
    /\ applyCalls' = applyCalls + 1
    /\ UNCHANGED applyCache
    /\ UNCHANGED <<ctlVars, trustVars, limiterVars, restVars>>

\* The informer delivers the resource's current version to the store.
ApplyObserve ==
    /\ applyCache # applyStore
    /\ applyCache' = applyStore
    /\ UNCHANGED <<applyStore, applyLast, applyCalls>>
    /\ UNCHANGED <<ctlVars, trustVars, limiterVars, restVars>>

\* The controller is not running; the cluster holds no resource for the domain
\* or one that an earlier run left, and the store has listed it.
InitApply ==
    /\ ControllerOff
    /\ TrustIdle
    /\ LimiterNew
    /\ RestIdle
    /\ applyStore \in {Absent} \cup
                      {[spec |-> s, msg |-> NoMsg, rv |-> 1] : s \in SignedSnapshots}
    /\ applyCache = applyStore
    /\ applyLast = NoCall
    /\ applyCalls = 0

NextApply ==
    \/ \E domainData \in SignedSnapshots, apiFail \in BOOLEAN :
          ApplyCall(domainData, apiFail)
    \/ \E apiFail \in BOOLEAN : ApplyErrorStatus(apiFail)
    \/ ApplyObserve

SpecApply == InitApply /\ [][NextApply]_vars

\* ------------------------------------------------ util.go, ProcessTrustDomain
\* ProcessTrustDomain called on its own. Role names and resource patterns are
\* sequences of characters; a cached domain is its policies (each a sequence of
\* assertions [action, resource, role]) and its roles ([name, trust, members]).
RoleNames == {<<"r">>, <<"r", "a">>}
Patterns == {<<"r">>, <<"r", "?">>, <<"*">>, <<"r", ".">>}

TrustAssertions == [action : {"assume_role", "*"}, resource : Patterns,
                    role : {"R1", "R2", "R3"}]

\* The policies of the cached domain: up to two assertions, in one policy or
\* in two, and a policy without assertions.
TrustPolicies ==
    {<<>>}
    \cup { <<<<a>>>> : a \in TrustAssertions }
    \cup { <<<<>>, <<a>>>> : a \in TrustAssertions }
    \cup { <<<<a, b>>>> : a, b \in TrustAssertions }
    \cup { <<<<a>>, <<b>>>> : a, b \in TrustAssertions }

\* Its roles: R1 and R2, each with a member and with or without a trust target
\* of its own.
TrustRoles ==
    { << [name |-> "R1", trust |-> t1, members |-> <<"m1">>],
         [name |-> "R2", trust |-> t2, members |-> <<"m2">>] >> :
      t1, t2 \in {NoTrust, DomT} }

\* What GetByKey may find: nothing, an object that is no AthenzDomain, or the
\* domain.
NotADomain == [other |-> TRUE]

TrustContents ==
    {Absent, NotADomain} \cup [policies : TrustPolicies, roles : TrustRoles]

\* roleReplacer.Replace: the glob pattern as a regular expression.
RECURSIVE roleReplacer(_)
roleReplacer(pattern) ==
    IF pattern = <<>> THEN <<>>
    ELSE LET c == Head(pattern)
             out == CASE c = "*" -> <<".", "*">>
                      [] c = "?" -> <<".">>
                      [] c \in {"^", "$", ".", "|", "[", "+", "\\", "(", ")", "{"} -> <<"\\", c>>
                      [] OTHER -> <<c>>
         IN  out \o roleReplacer(Tail(pattern))

\* regexp.MatchString("^" + re + "$", s) for the expressions roleReplacer
\* writes: an escaped character, ".", ".*" and plain characters.
RECURSIVE MatchString(_, _)
MatchString(re, s) ==
    IF re = <<>> THEN s = <<>>
    ELSE IF Head(re) = "\\"
         THEN /\ Len(re) >= 2
              /\ s # <<>>
              /\ Head(s) = re[2]
              /\ MatchString(SubSeq(re, 3, Len(re)), Tail(s))
         ELSE IF Head(re) = "."
              THEN IF Len(re) >= 2 /\ re[2] = "*"
                   THEN \/ MatchString(SubSeq(re, 3, Len(re)), s)
                        \/ s # <<>> /\ MatchString(re, Tail(s))
                   ELSE s # <<>> /\ MatchString(Tail(re), Tail(s))
              ELSE /\ s # <<>>
                   /\ Head(s) = Head(re)
                   /\ MatchString(Tail(re), Tail(s))

\* The assertions in the order of the two loops: policy by policy.
RECURSIVE AssertionsOf(_)
AssertionsOf(policies) ==
    IF policies = <<>> THEN <<>>
    ELSE Head(policies) \o AssertionsOf(Tail(policies))

\* An inner loop that returns the members whatever the role's trust.
MembersWhateverTrust(role) == role.members

\* What the inner loop returns for a role: its members, or nothing when the
\* role delegates further.
MembersOf(role) == IF role.trust # NoTrust THEN <<>> ELSE role.members

\* The loops: the first assume_role assertion whose resource matches the role
\* name and whose role is among the domain's roles ends the call.
RECURSIVE ResolveFrom(_, _, _)
ResolveFrom(assertions, roles, roleName) ==
    IF assertions = <<>> THEN <<>>
    ELSE LET assertion == Head(assertions)
             named == {i \in 1..Len(roles) : roles[i].name = assertion.role}
         IN  IF /\ assertion.action = "assume_role"
                /\ MatchString(roleReplacer(assertion.resource), roleName)
                /\ named # {}
             THEN MembersOf(roles[CHOOSE i \in named : \A j \in named : i <= j])
             ELSE ResolveFrom(Tail(assertions), roles, roleName)

TrustResult(members, err) == [members |-> members, err |-> err]

\* A lookup that reports a missing domain as an empty answer.
LookupWithoutError(content) == TrustResult(<<>>, FALSE)

\* What ProcessTrustDomain returns when the store has no AthenzDomain under
\* the key.
LookupFailed(content) == TrustResult(<<>>, TRUE)

ProcessTrustDomain(content, roleName) ==
    IF content = Absent \/ content = NotADomain
    THEN LookupFailed(content)
    ELSE TrustResult(ResolveFrom(AssertionsOf(content.policies), content.roles, roleName),
                  FALSE)

\* The call.
TrustCall ==
    /\ trustOut = NoOutput
    /\ trustOut' = ProcessTrustDomain(trustIn.content, trustIn.roleName)
    /\ UNCHANGED trustIn
    /\ UNCHANGED <<ctlVars, applyVars, limiterVars, restVars>>

InitTrust ==
    /\ ControllerOff
    /\ ApplyIdle
    /\ LimiterNew
    /\ RestIdle
    /\ trustIn \in [content : TrustContents, roleName : RoleNames]
    /\ trustOut = NoOutput

NextTrust == TrustCall

SpecTrust == InitTrust /\ [][NextTrust]_vars

\* ------------------------------------------------ ratelimiter.go, the delays
\* When called by the controller's threads under the limiter's lock, with the
\* clock it reads.
\* The clock's last tick and the number of When calls in one run.
MaxClock == 9
MaxWhen == 4

Threads == {"watch", "worker"}
LimiterItems == {DomA, DomT}

\* A When that admits at once whenever the clock is past currentDelay.
WhenAtPastCursor(cursor, now) ==
    IF now > cursor
    THEN [cursor |-> now, delay |-> 0]
    ELSE [cursor |-> cursor + delayInterval, delay |-> cursor + delayInterval - now]

\* A When that never resets currentDelay.
WhenAtNoReset(cursor, now) ==
    [cursor |-> cursor + delayInterval, delay |-> cursor + delayInterval - now]

\* When's delay: currentDelay after the call and the duration returned.
WhenAt(cursor, now) ==
    LET newDelay == cursor + delayInterval
    IN  IF now > newDelay
        THEN [cursor |-> now, delay |-> 0]
        ELSE [cursor |-> newDelay, delay |-> newDelay - now]

\* Time passes.
LimiterTick ==
    /\ clock < MaxClock
    /\ clock' = clock + 1
    /\ UNCHANGED <<currentDelay, limLock, limLog, limSince>>
    /\ UNCHANGED <<ctlVars, applyVars, trustVars, restVars>>

\* A thread enters When: failuresLock.Lock().
LimiterLock(th) ==
    /\ limLock = Free
    /\ Len(limLog) < MaxWhen
    /\ limLock' = th
    /\ UNCHANGED <<clock, currentDelay, limLog, limSince>>
    /\ UNCHANGED <<ctlVars, applyVars, trustVars, restVars>>

\* The body of When and the deferred Unlock.
LimiterWhen(th, item) ==
    /\ limLock = th
    /\ NumRequeues(failures, item) < MaxRequeues
    /\ failures' = When(failures, item, 1)
    /\ limSince' = [limSince EXCEPT ![item] = @ + 1]
    /\ LET r == WhenAt(currentDelay, clock)
       IN  /\ currentDelay' = r.cursor
           /\ limLog' = Append(limLog, [by |-> th, at |-> clock, before |-> currentDelay,
                                        delay |-> r.delay, after |-> r.cursor])
    /\ limLock' = Free
    /\ UNCHANGED clock
    /\ UNCHANGED <<envVars, stopCh, changed, nsVars, crVars, queue, shutdown, runPc,
                   workerVars, cronVars, applyVars, trustVars, restVars>>

\* Forget under the lock, and the deferred Unlock.
LimiterForget(th, item) ==
    /\ limLock = th
    /\ failures' = Forget(failures, item)
    /\ limSince' = [limSince EXCEPT ![item] = 0]
    /\ limLock' = Free
    /\ UNCHANGED <<clock, currentDelay, limLog>>
    /\ UNCHANGED <<envVars, stopCh, changed, nsVars, crVars, queue, shutdown, runPc,
                   workerVars, cronVars, applyVars, trustVars, restVars>>

\* NumRequeues under the lock, and the deferred Unlock: the map is read, the
\* caller gets NumRequeues(failures, item).
LimiterNumRequeues(th, item) ==
    /\ limLock = th
    /\ NumRequeues(failures, item) \in 0..MaxRequeues
    /\ limLock' = Free
    /\ UNCHANGED <<clock, currentDelay, limLog, limSince>>
    /\ UNCHANGED <<ctlVars, applyVars, trustVars, restVars>>

InitLimiter ==
    /\ ControllerOff
    /\ ApplyIdle
    /\ TrustIdle
    /\ LimiterNew
    /\ RestIdle

NextLimiter ==
    \/ LimiterTick
    \/ \E th \in Threads : LimiterLock(th)
    \/ \E th \in Threads, item \in LimiterItems : LimiterWhen(th, item)
    \/ \E th \in Threads, item \in LimiterItems : LimiterForget(th, item)
    \/ \E th \in Threads, item \in LimiterItems : LimiterNumRequeues(th, item)

SpecLimiter == InitLimiter /\ [][NextLimiter]_vars

\* ------------------------------------------------ cron.go, the change cursor
\* requestCall with its cursor and the ConfigMap it writes, the upstream
\* domains with the times of their modifications, and the worker that applies
\* what the poll enqueued. Times are counted in ticks; a cursor is the text of
\* a time, NoCursor the empty text.
\* Ticks in a second, and the upstream clock's last tick.
Second == 2
MaxStamp == 6

CronDomains == {DomA, DomT}

\* time.Time.Format(time.RFC3339): the fraction of the second is dropped.
RFC3339(t) == <<t - (t % Second)>>

\* A GetLatestTimestamp that returns the oldest resource's time.
OldestTimestamp ==
    LET crs == {d \in Domains : crCache[d] # Absent}
        oldest == CHOOSE d \in crs : \A e \in crs : crMod[d] <= crMod[e]
    IN  IF crs = {} THEN NoCursor
        ELSE RFC3339(crMod[oldest])

\* GetLatestTimestamp: the latest Modified of the store's resources, as text.
GetLatestTimestamp ==
    LET crs == {d \in Domains : crCache[d] # Absent}
        stamps == {Epoch} \cup {crMod[d] : d \in crs}
        latest == CHOOSE t \in stamps : \A u \in stamps : ~(u > t)
        timestr == RFC3339(latest)
    IN  IF crs = {} THEN NoCursor
        ELSE IF timestr = RFC3339(Epoch) THEN NoCursor
        ELSE timestr

\* The upstream service reads a cursor: no cursor asks for every domain.
ParseCursor(cursor) == IF cursor = NoCursor THEN Epoch ELSE cursor[1]

\* zmsClient.GetSignedDomains with the cursor as matching tag: an error, or the
\* domains modified after the cursor and, as the new cursor, the time of the
\* youngest of them (the cursor sent when there is none). noEtag: the answer
\* comes without the ETag header.
GetSignedDomains(cursor, callFail, noEtag) ==
    LET ds == {d \in Domains : upMod[d] > ParseCursor(cursor)}
        youngest == CHOOSE t \in {upMod[d] : d \in ds} :
                        \A d \in ds : upMod[d] <= t
    IN  IF callFail THEN [err |-> TRUE, domains |-> {}, etag |-> NoCursor]
        ELSE [err |-> FALSE, domains |-> ds,
              etag |-> IF noEtag THEN NoCursor
                       ELSE IF ds = {} THEN cursor ELSE <<youngest>>]

\* A requestCall that writes the time of the contact.
PersistContactTime(cursor, getFail, createFail, updateFail) ==
    [latest_contact |-> <<upNow>>]

\* A requestCall that writes the cursor it already had.
PersistOldCursor(cursor, getFail, createFail, updateFail) ==
    IF sink = Absent THEN sink ELSE [latest_contact |-> etag]

\* CheckConfigMap, CreateConfigMap when it reports no ConfigMap, and the Update
\* of requestCall: the ConfigMap after them. Every error is logged only.
PersistCursor(cursor, getFail, createFail, updateFail) ==
    LET exists == sink # Absent /\ ~getFail
        created == IF ~exists /\ sink = Absent /\ ~createFail
                   THEN [latest_contact |-> NoCursor]
                   ELSE sink
    IN  IF created # Absent /\ ~updateFail
        THEN [latest_contact |-> cursor]
        ELSE created

\* The frame of the cursor component's steps.
CronFrame ==
    /\ UNCHANGED <<env, stopCh, nsServer, nsCache, nsDirty, nsSynced, zms, changed,
                   crDirty, crSynced, idxVals, shutdown, wKey, wRes, attempts>>
    /\ UNCHANGED <<applyVars, trustVars, limiterVars, indexVars, mapVars, wqVars, tampered>>

\* Run from the cache sync on: SetEtag(GetLatestTimestamp()), the two loops and
\* the worker start, the admin and system domains are enqueued.
CronStart ==
    /\ cronPc = "new"
    /\ runPc = "waitSync"
    /\ nsSynced /\ crSynced
    /\ etag' = GetLatestTimestamp
    /\ cronPc' = "on"
    /\ runPc' = "running"
    /\ updPc' = "on"
    /\ resPc' = "on"
    /\ wPc' = "get"
    /\ failures' = WhenBag(failures, AddAdminSystemDomains)
    /\ queue' = AddAfterBag(queue, AddAdminSystemDomains)
    /\ UNCHANGED <<sink, upNow, upMod, crMod, crServer, crCache>>
    /\ CronFrame

\* An upstream user modifies a domain.
CronUpstreamChange(d) ==
    /\ upNow < MaxStamp
    /\ upNow' = upNow + 1
    /\ upMod' = [upMod EXCEPT ![d] = upNow + 1]
    /\ UNCHANGED <<cronPc, etag, sink, crMod, crServer, crCache, queue, failures,
                   runPc, updPc, resPc, wPc>>
    /\ CronFrame

\* One requestCall.
requestCall(callFail, noEtag, getFail, createFail, updateFail) ==
    /\ cronPc = "on"
    /\ LET r == GetSignedDomains(etag, callFail, noEtag)
           cnt == [d \in Domains |->
                     IF d \in r.domains /\ ValidateDomain(d) THEN 1 ELSE 0]
       IN  IF r.err
           THEN UNCHANGED <<queue, failures, etag, sink>>
           ELSE /\ failures' = WhenBag(failures, cnt)
                /\ queue' = AddAfterBag(queue, cnt)
                /\ IF r.etag # NoCursor
                   THEN /\ etag' = r.etag
                        /\ sink' = PersistCursor(r.etag, getFail, createFail, updateFail)
                   ELSE UNCHANGED <<etag, sink>>
    /\ UNCHANGED <<cronPc, upNow, upMod, crMod, crServer, crCache, runPc, updPc,
                   resPc, wPc>>
    /\ CronFrame

\* One processNextItem for a valid domain that upstream holds, from queue.Get
\* to queue.Done. applied: sync fetched the snapshot and wrote it to the
\* resource, and the store has it; otherwise sync returned an error, and the
\* item is admitted again or given up.
CronProcess(d, applied) ==
    /\ cronPc = "on"
    /\ d \in queue
    /\ ValidateDomain(d)
    /\ upMod[d] # Epoch
    /\ IF applied
       THEN /\ crMod' = [crMod EXCEPT ![d] = upMod[d]]
            /\ crServer' = [crServer EXCEPT ![d] = [spec |-> <<>>, msg |-> NoMsg]]
            /\ crCache' = [crCache EXCEPT ![d] = [spec |-> <<>>, msg |-> NoMsg]]
            /\ queue' = queue \ {d}
            /\ UNCHANGED failures
       ELSE /\ UNCHANGED <<crMod, crServer, crCache>>
            /\ IF NumRequeues(failures, d) < workerQueueRetry
               THEN /\ failures' = When(failures, d, 1)
                    /\ queue' = AddAfterBag(queue \ {d}, One(d))
               ELSE /\ failures' = Forget(failures, d)
                    /\ queue' = queue \ {d}
    /\ UNCHANGED <<cronPc, etag, sink, upNow, upMod, runPc, updPc, resPc, wPc>>
    /\ CronFrame

\* The caches have synced. Upstream holds the domain of the namespace and a
\* domain outside the admission rule, each modified within a second before
\* the start; the store holds for each no resource or a snapshot
\* taken at one of these times; the ConfigMap is absent or was created
\* without a value.
InitCron ==
    /\ env = 0
    /\ stopCh = FALSE
    /\ nsServer = {NsA}
    /\ nsCache = nsServer
    /\ nsDirty = {}
    /\ nsSynced = TRUE
    /\ zms = Upstream(CronDomains)
    /\ changed = {}
    /\ upNow = 2 * Second
    /\ upMod \in [Domains -> Epoch..upNow]
    /\ \A d \in Domains : IF d \in CronDomains THEN upMod[d] >= Second
                                                ELSE upMod[d] = Epoch
    /\ crMod \in [Domains -> Epoch..upNow]
    /\ \A d \in Domains : crMod[d] = Epoch \/ (Second <= crMod[d] /\ crMod[d] <= upMod[d])
    /\ crServer = [d \in Domains |-> IF crMod[d] = Epoch THEN Absent
                                     ELSE [spec |-> <<>>, msg |-> NoMsg]]
    /\ crCache = crServer
    /\ crDirty = {}
    /\ crSynced = TRUE
    /\ idxVals = {}
    /\ queue = {}
    /\ shutdown = FALSE
    /\ failures = [d \in Domains |-> 0]
    /\ runPc = "waitSync"
    /\ wPc = "off"
    /\ wKey = NoName
    /\ updPc = "off"
    /\ resPc = "off"
    /\ wRes = NoResult
    /\ attempts = [d \in Domains |-> 0]
    /\ cronPc = "new"
    /\ etag = NoCursor
    /\ sink \in {Absent, [latest_contact |-> NoCursor]}
    /\ ApplyIdle
    /\ TrustIdle
    /\ LimiterNew
    /\ IndexIdle
    /\ MapIdle
    /\ WqIdle
    /\ tampered = {}

\* What one requestCall meets: the ZMS call fails, or answers without a
\* cursor, or answers with one and each call to the ConfigMap API succeeds or
\* fails.
PollInputs ==
    {[callFail |-> TRUE, noEtag |-> FALSE, getFail |-> FALSE, createFail |-> FALSE,
      updateFail |-> FALSE],
     [callFail |-> FALSE, noEtag |-> TRUE, getFail |-> FALSE, createFail |-> FALSE,
      updateFail |-> FALSE]}
    \cup [callFail : {FALSE}, noEtag : {FALSE}, getFail : BOOLEAN, createFail : BOOLEAN,
          updateFail : BOOLEAN]

NextCron ==
    \/ CronStart
    \/ \E d \in CronDomains : CronUpstreamChange(d)
    \/ \E in \in PollInputs :
          requestCall(in.callFail, in.noEtag, in.getFail, in.createFail, in.updateFail)
    \/ \E d \in CronDomains, applied \in BOOLEAN : CronProcess(d, applied)

SpecCron == InitCron /\ [][NextCron]_vars

\* ------------------------------------------------ cron.go, the full resync
\* Run from the cache sync on and the passes of FullResync, on the stores as
\* the initial lists left them: the namespaces and the resources are drawn,
\* some resources delegate to DomT, and the trustDomain index may hold values
\* that no resource carries any longer.
InitResync ==
    /\ env = 0
    /\ stopCh = FALSE
    /\ nsServer \in SUBSET Namespaces
    /\ nsCache = nsServer
    /\ nsDirty = {}
    /\ nsSynced = TRUE
    /\ zms = Upstream({})
    /\ changed = {}
    /\ crServer \in [Domains -> {Absent, [spec |-> <<>>, msg |-> NoMsg],
                                 [spec |-> <<DomT>>, msg |-> NoMsg]}]
    /\ crCache = crServer
    /\ crDirty = {}
    /\ crSynced = TRUE
    /\ idxVals \in SUBSET {DomT, DomX}
    /\ \A d \in Domains : crCache[d] # Absent => TrustDomainIndexFunc(crCache[d]) \subseteq idxVals
    /\ LET cnt == [d \in Domains |->
                     Cardinality({n \in nsServer : NamespaceToDomain(n) = d})
                     + (IF crServer[d] # Absent THEN 1 ELSE 0)]
       IN  /\ failures = [d \in Domains |-> Min(cnt[d], MaxRequeues)]
           /\ queue = {d \in Domains : cnt[d] > 0}
    /\ shutdown = FALSE
    /\ runPc = "waitSync"
    /\ wPc = "off"
    /\ wKey = NoName
    /\ updPc = "off"
    /\ resPc = "off"
    /\ wRes = NoResult
    /\ attempts = [d \in Domains |-> 0]
    /\ UnitsIdle

NextResync ==
    \/ RunAfterSync
    \/ FullResync

SpecResync == InitResync /\ [][NextResync]_vars

\* ------------------------------------------- cr.go, the trustDomain index
\* The informer's indexer with the index that AddIndexers registers, as Add,
\* Update and Delete of objects keep it; ByIndex reads it.
IndexKeys == {DomA, DomT, adminDomain}

\* TrustDomainIndexFunc's list: one value for each role that has a trust.
TrustDomainIndexList(obj) == SelectSeq(obj.spec, LAMBDA t : t # NoTrust)

IndexedValues(obj) ==
    IF obj = Absent THEN {}
    ELSE { TrustDomainIndexList(obj)[i] : i \in 1..Len(TrustDomainIndexList(obj)) }

\* The key leaves the sets of the values the old object carried.
deleteFromIndices(ix, obj, key) ==
    [v \in IndexValues |-> IF v \in IndexedValues(obj) THEN ix[v] \ {key} ELSE ix[v]]

\* An updateIndices that leaves the old object's values in place.
updateIndicesKeepOld(ix, oldObj, newObj, key) ==
    [v \in IndexValues |-> IF v \in IndexedValues(newObj) THEN ix[v] \cup {key} ELSE ix[v]]

\* The key leaves the old object's values and joins the new object's.
updateIndices(ix, oldObj, newObj, key) ==
    LET cleared == deleteFromIndices(ix, oldObj, key)
    IN  [v \in IndexValues |->
            IF v \in IndexedValues(newObj) THEN cleared[v] \cup {key} ELSE cleared[v]]

ByIndex(indexedValue) ==
    IF indexedValue \in IndexValues THEN indices[indexedValue] ELSE {}

\* IsTrustDomain as it reads the index.
IsTrustDomainByIndex(domainName) == ByIndex(domainName) # {}

IndexFrame ==
    /\ UNCHANGED <<env, stopCh, nsServer, nsCache, nsDirty, nsSynced, zms, changed,
                   crDirty, crSynced, queue, shutdown, failures, runPc, wPc, wKey,
                   wRes, updPc, resPc, attempts>>
    /\ UNCHANGED <<applyVars, trustVars, limiterVars, cursorVars, mapVars, wqVars, tampered>>

\* Indexer.Add and Indexer.Update: the object is stored under its key.
IndexerPut(key, obj) ==
    /\ crCache' = [crCache EXCEPT ![key] = obj]
    /\ crServer' = [crServer EXCEPT ![key] = obj]
    /\ indices' = updateIndices(indices, crCache[key], obj, key)
    /\ idxVals' = idxVals \cup IndexedValues(obj)
    /\ IndexFrame

IndexerDelete(key) ==
    /\ crCache[key] # Absent
    /\ crCache' = [crCache EXCEPT ![key] = Absent]
    /\ crServer' = [crServer EXCEPT ![key] = Absent]
    /\ indices' = deleteFromIndices(indices, crCache[key], key)
    /\ UNCHANGED idxVals
    /\ IndexFrame

InitIndex ==
    /\ ControllerOff
    /\ ApplyIdle
    /\ TrustIdle
    /\ LimiterNew
    /\ RestIdle

NextIndex ==
    \/ \E key \in IndexKeys, roles \in SyncRoles :
          IndexerPut(key, [spec |-> roles, msg |-> NoMsg])
    \/ \E key \in IndexKeys : IndexerDelete(key)

SpecIndex == InitIndex /\ [][NextIndex]_vars

\* --------------------------------------------- util.go, the two conversions
\* NamespaceToDomain and DomainToNamespace applied to names of up to MaxName
\* characters, under the configured admin domain and system list.
MaxName == 3
MapChars == {"a", "k", "-", "."}
MapNames == UNION { [1..n -> MapChars] : n \in 0..MaxName }

MapFrame ==
    /\ UNCHANGED <<ctlVars, applyVars, trustVars, limiterVars, cursorVars, indexVars, wqVars, tampered>>
    /\ UNCHANGED mapIn

\* A namespace to its domain and back.
MapNamespace ==
    /\ mapOut = NoOutput
    /\ mapOut' = [from   |-> "namespace",
                  domain |-> NamespaceToDomain(mapIn.a),
                  back   |-> DomainToNamespace(NamespaceToDomain(mapIn.a))]
    /\ MapFrame

\* Two domains to their namespaces, the first one back.
MapDomains ==
    /\ mapOut = NoOutput
    /\ mapOut' = [from |-> "domain",
                  nsA  |-> DomainToNamespace(mapIn.a),
                  nsB  |-> DomainToNamespace(mapIn.b),
                  back |-> NamespaceToDomain(DomainToNamespace(mapIn.a))]
    /\ MapFrame

InitMap ==
    /\ ControllerOff
    /\ ApplyIdle
    /\ TrustIdle
    /\ LimiterNew
    /\ CursorIdle
    /\ IndexIdle
    /\ WqIdle
    /\ tampered = {}
    /\ mapIn \in [a : MapNames, b : MapNames]
    /\ mapOut = NoOutput

NextMap ==
    \/ MapNamespace
    \/ MapDomains

SpecMap == InitMap /\ [][NextMap]_vars

\* ------------------------------------- controller.go, the queue and its worker
\* The number of occurrences of item in the list.
Occurrences(list, item) == Cardinality({i \in DOMAIN list : list[i] = item})

\* queue.Add: nothing once shutting down; an item already dirty is not added
\* again; an item in processing is only marked dirty.
WqAdd(q, item) ==
    IF q.shuttingDown \/ item \in q.dirty THEN q
    ELSE IF item \in q.processing THEN [q EXCEPT !.dirty = @ \cup {item}]
    ELSE [q EXCEPT !.dirty = @ \cup {item}, !.queue = Append(@, item)]

\* queue.AddAfter with a positive delay: the item waits, once, for its time.
WqAddAfter(q, item) ==
    IF q.shuttingDown THEN q ELSE [q EXCEPT !.waiting = @ \cup {item}]

\* queue.Done: the item leaves processing, and goes back to the list when it
\* was added meanwhile.
WqDone(q, item) ==
    IF item \in q.dirty
    THEN [q EXCEPT !.processing = @ \ {item}, !.queue = Append(@, item)]
    ELSE [q EXCEPT !.processing = @ \ {item}]

\* A processNextItem that marks the item done only after the cast.
DoneAfterCast(ok) == ok

\* defer c.queue.Done(key) is registered before the cast: it runs on the
\* return of every path.
DoneDeferred(ok) == TRUE

WqFrame ==
    /\ UNCHANGED <<ctlVars, applyVars, trustVars, limiterVars, cursorVars, indexVars, mapVars, tampered>>

\* A handler, a polling loop or the cascade admits an item.
WqAdmit(item) ==
    /\ wqHist.adds < MaxAdds
    /\ wq' = WqAddAfter(wq, item)
    /\ wqHist' = [wqHist EXCEPT !.adds = @ + 1]
    /\ UNCHANGED <<wqWorker, evLast>>
    /\ WqFrame

\* The delay of a waiting item is over.
WqReady(item) ==
    /\ item \in wq.waiting
    /\ wq' = WqAdd([wq EXCEPT !.waiting = @ \ {item}], item)
    /\ UNCHANGED <<wqWorker, wqHist, evLast>>
    /\ WqFrame

\* queue.ShutDown.
WqShutDown ==
    /\ ~wq.shuttingDown
    /\ wq' = [wq EXCEPT !.shuttingDown = TRUE]
    /\ UNCHANGED <<wqWorker, wqHist, evLast>>
    /\ WqFrame

\* processNextItem, up to the return of queue.Get with an item.
WqGet ==
    /\ wqWorker.pc = "get"
    /\ wq.queue # <<>>
    /\ LET item == Head(wq.queue)
       IN  /\ wq' = [wq EXCEPT !.queue = Tail(@), !.processing = @ \cup {item},
                                !.dirty = @ \ {item}]
           /\ wqWorker' = [pc |-> "sync", key |-> item]
           /\ wqHist' = [wqHist EXCEPT !.gets[item] = @ + 1]
    /\ UNCHANGED evLast
    /\ WqFrame

\* processNextItem, queue.Get telling the worker to quit.
WqQuit ==
    /\ wqWorker.pc = "get"
    /\ wq.queue = <<>>
    /\ wq.shuttingDown
    /\ wqWorker' = [pc |-> "quit", key |-> NoItem]
    /\ UNCHANGED <<wq, wqHist, evLast>>
    /\ WqFrame

\* processNextItem, from the cast to its return: err is the result of sync,
\* again that of NumRequeues(domainName) < workerQueueRetry.
WqProcess(err, again) ==
    /\ wqWorker.pc = "sync"
    /\ (err /\ again) => wqHist.adds < MaxAdds
    /\ LET key == wqWorker.key
           ok == key.string
           readded == IF ok /\ err /\ again THEN WqAddAfter(wq, key) ELSE wq
           called == DoneDeferred(ok)
       IN  /\ wq' = IF called THEN WqDone(readded, key) ELSE readded
           /\ wqHist' = [wqHist EXCEPT
                  !.adds = IF ok /\ err /\ again THEN @ + 1 ELSE @,
                  !.dones[key] = IF called THEN @ + 1 ELSE @]
    /\ wqWorker' = [pc |-> "get", key |-> NoItem]
    /\ UNCHANGED evLast
    /\ WqFrame

InitWq ==
    /\ ControllerOff
    /\ ApplyIdle
    /\ TrustIdle
    /\ LimiterNew
    /\ CursorIdle
    /\ IndexIdle
    /\ MapIdle
    /\ WqIdle
    /\ tampered = {}

NextWq ==
    \/ \E item \in WqItems : WqAdmit(item)
    \/ \E item \in WqItems : WqReady(item)
    \/ WqShutDown
    \/ WqGet
    \/ WqQuit
    \/ \E err \in BOOLEAN, again \in BOOLEAN : WqProcess(err, again)

SpecWq == InitWq /\ [][NextWq]_vars

\* ------------------------------------ controller.go, the watch event handlers
\* cache.MetaNamespaceKeyFunc: the name of an object that has metadata.
MetaNamespaceKeyFunc(obj) ==
    IF obj.shape = "object" THEN [key |-> obj.name, err |-> FALSE]
    ELSE [key |-> NoName, err |-> TRUE]

\* cache.DeletionHandlingMetaNamespaceKeyFunc: the key a tombstone records,
\* else as MetaNamespaceKeyFunc.
DeletionHandlingMetaNamespaceKeyFunc(obj) ==
    IF obj.shape = "tombstone" THEN [key |-> obj.name, err |-> FALSE]
    ELSE MetaNamespaceKeyFunc(obj)

\* The key function each handler is registered with.
KeyFuncOf(type, obj) ==
    IF type = "delete" THEN DeletionHandlingMetaNamespaceKeyFunc(obj)
    ELSE MetaNamespaceKeyFunc(obj)

nsinformerhandler(res, q) ==
    IF res.err THEN q ELSE WqAddAfter(q, Key(NamespaceToDomain(res.key)))

\* A crinformerhandler that does not look at the error of the key function.
crinformerhandlerAnyway(res, q) == WqAddAfter(q, Key(res.key))

crinformerhandler(res, q) ==
    IF res.err THEN q ELSE WqAddAfter(q, Key(res.key))

\* domain.Spec.Domain.Roles read through the pointer the cast gave: a nil
\* pointer when the value is no AthenzDomain.
TrustsThrough(obj) ==
    IF obj.shape = "bare" \/ (obj.shape = "tombstone" /\ obj.holds # "object")
    THEN [panic |-> TRUE, values |-> <<>>]
    ELSE [panic |-> FALSE, values |-> SelectSeq(obj.spec, LAMBDA t : t # NoTrust)]

\* TrustDomainIndexFunc on the object of an event.
TrustDomainIndexOfEvent(obj) ==
    IF obj.shape # "object" /\ obj.shape # "tombstone"
    THEN [panic |-> FALSE, values |-> <<>>]
    ELSE IF obj.shape = "tombstone" /\ obj.holds # "object"
    THEN [panic |-> FALSE, values |-> <<>>]
    ELSE TrustsThrough(obj)

\* An informer delivers an event to its handler; the resource informer's
\* indexer applies the index function to the object.
EvDeliver(ev) ==
    /\ wqHist.adds < MaxAdds
    /\ LET res == KeyFuncOf(ev.type, ev.obj)
       IN  wq' = IF ev.handler = "ns" THEN nsinformerhandler(res, wq)
                 ELSE crinformerhandler(res, wq)
    /\ wqHist' = [wqHist EXCEPT !.adds = @ + 1]
    /\ evLast' = [ev |-> ev,
                  index |-> IF ev.handler = "cr" THEN TrustDomainIndexOfEvent(ev.obj)
                            ELSE [panic |-> FALSE, values |-> <<>>]]
    /\ UNCHANGED wqWorker
    /\ WqFrame

NextEvent ==
    \/ \E ev \in Events : EvDeliver(ev)
    \/ \E item \in WqItems : WqReady(item)

SpecEvent == InitWq /\ [][NextEvent]_vars

\* ------------------------------- controller.go, the controller and its healing
\* A third party deletes a stored resource or replaces its content.
CrTamper(d, obj) ==
    /\ env < MaxEnv
    /\ crServer[d] # Absent
    /\ obj # crServer[d]
    /\ env' = env + 1
    /\ crServer' = [crServer EXCEPT ![d] = obj]
    /\ crDirty' = crDirty \cup {d}
    /\ UNCHANGED <<nsServer, zms, stopCh, changed, nsVars, crCache, crSynced, idxVals,
                   queueVars, runPc, workerVars, cronVars>>
    /\ tampered' = tampered \cup {d}
    /\ UNCHANGED <<applyVars, trustVars, limiterVars, cursorVars, indexVars, mapVars, wqVars>>

\* What a third party may leave in the place of a stored resource: nothing,
\* or a resource with one role that lists members.
TamperObjects == {Absent, [spec |-> <<NoTrust>>, msg |-> NoMsg]}
\* The domains whose resources it touches: a namespace's and the admin domain.
TamperDomains == {DomA, adminDomain}

\* The controller while third parties delete and alter its resources.
NextTamper ==
    \/ Controller
    \/ \E d \in TamperDomains, obj \in TamperObjects : CrTamper(d, obj)

SpecTamper == Init /\ [][NextTamper]_vars

\* ---------------------------- controller.go, the controller fairly scheduled
\* The controller as NewController leaves it, in one of two worlds. Upstream,
\* the namespace's domain delegates to DomT, and DomT has a role that delegates
\* to its own domain. In the first world the namespace lives and the cluster
\* holds an out-of-date resource of its domain; in the second the namespace is
\* gone and an earlier run left the resources of both domains.
InitLive ==
    /\ zms = [d \in Domains |->
                CASE d = DomA -> [roles |-> <<DomT>>]
                  [] d = DomT -> [roles |-> <<DomT>>]
                  [] d = adminDomain -> [roles |-> <<>>]
                  [] OTHER -> Absent]
    /\ \/ /\ nsServer = {NsA}
          /\ crServer = [LeftOver({}) EXCEPT ![DomA] = [spec |-> <<>>, msg |-> NoMsg]]
       \/ /\ nsServer = {}
          /\ crServer = [LeftOver({}) EXCEPT ![DomA] = [spec |-> <<DomT>>, msg |-> NoMsg],
                                             ![DomT] = [spec |-> <<DomT>>, msg |-> NoMsg]]
    /\ ControllerNew
    /\ UnitsIdle

\* The controller in a quiet environment; every call to the cluster and to the
\* upstream service succeeds.
NextLive ==
    \/ RunStart
    \/ NsInitialList
    \/ CrInitialList
    \/ RunAfterSync
    \/ \E d \in Domains : CrEvent(d)
    \/ UpdateCron
    \/ FullResync
    \/ \E d \in Domains : WorkerGet(d, FALSE)
    \/ \E kind \in {"ok", "404", "empty"} : WorkerFetch(kind, FALSE)
    \/ WorkerDone

\* The informers deliver every event, both loops tick for ever, the worker runs
\* and the queue hands out every item it holds (it is first in, first out).
Scheduling ==
    /\ WF_vars(RunStart)
    /\ WF_vars(NsInitialList)
    /\ WF_vars(CrInitialList)
    /\ WF_vars(RunAfterSync)
    /\ \A d \in Domains : WF_vars(CrEvent(d))
    /\ WF_vars(UpdateCron)
    /\ WF_vars(FullResync)
    /\ \A d \in Domains : SF_vars(WorkerGet(d, FALSE))
    /\ WF_vars(WorkerDone)

\* Every call of the worker returns.
CallsReturn == WF_vars(\E kind \in {"ok", "404", "empty"} : WorkerFetch(kind, FALSE))

SpecLive == InitLive /\ [][NextLive]_vars /\ Scheduling /\ CallsReturn

\* The same, but a call to the upstream service may never return.
SpecHang == InitLive /\ [][NextLive]_vars /\ Scheduling

\* -------------------------------------------------------------------- claims
\* The namespaces that live, in the cluster's view or in the store's, and the
\* trust targets of the stored resources, in either view as well.
LiveNamespaces == nsServer \cup nsCache

TrustTargetsOf(store) ==
    UNION { TrustDomainIndexFunc(store[e]) : e \in {x \in Domains : store[x] # Absent} }

Admissible(d) ==
    \/ \E n \in LiveNamespaces : NamespaceToDomain(n) = d
    \/ IsAdminDomain(d)
    \/ d \in GetSystemNSDomains
    \/ d \in TrustTargetsOf(crServer) \cup TrustTargetsOf(crCache)

Created(d) == crServer[d] = Absent /\ crServer'[d] # Absent

\* C1: no step creates a mirrored resource for a domain that, at the moment
\* of the create, is none of: the mapped domain of a live namespace, the admin
\* domain, a system-namespace domain, a trust target of a stored resource.
C1_CreateOnlyAdmissible ==
    [][\A d \in Domains : Created(d) => Admissible(d)]_vars

\* A failing sync ends in the drop of its item.
Dropped == wPc = "synced" /\ wRes.err /\ ~Requeue

\* C2: an item whose sync keeps failing is dropped after exactly the ceiling's
\* number of retries: the sync that ends in the drop is the item's third or
\* fourth failure in a row (the ceiling counted in attempts or in retries),
\* and the drop clears the counter.
C2_DroppedAfterCeiling ==
    [][(Dropped /\ wPc' = "get") =>
          /\ attempts[wKey] + 1 \in {workerQueueRetry, workerQueueRetry + 1}
          /\ NumRequeues(failures', wKey) = 0]_vars

\* C3: after a sync of domain d that returns without error, NumRequeues(d)
\* is 0.
C3_ResetOnSuccess ==
    [][(wPc = "synced" /\ ~wRes.err /\ wPc' = "get") =>
          NumRequeues(failures', wKey) = 0]_vars

\* The fetch of the step failed with an error other than not-found.
FetchFailed ==
    /\ wPc = "fetch"
    /\ wPc' # "fetch"
    /\ wRes'.fetch \in {"rdlerr", "neterr"}

\* C4: when the fetch for a valid domain fails with an error other than
\* not-found, sync returns, the resource the store and the cluster hold (if
\* any) carries the error text as its status message over an unchanged
\* payload, and sync returns the error, so that the item is retried or dropped
\* at the ceiling.
C4_FetchErrorStampedAndReturned ==
    [][FetchFailed =>
          /\ wPc' = "synced"
          /\ wRes'.err
          /\ (crCache[wKey] # Absent /\ crServer[wKey] # Absent) =>
                crServer'[wKey] = [crServer[wKey] EXCEPT !.msg = ErrMsg]]_vars

\* The fetch of the step answered not-found: a 404 or an empty domain list.
FetchNotFound ==
    /\ wPc = "fetch"
    /\ wPc' # "fetch"
    /\ wRes'.fetch \in {"404", "empty"}

\* The step wrote no resource but, at most, deleted the item's.
NoCreateNoUpdate ==
    \A e \in Domains :
        crServer'[e] = crServer[e] \/ (e = wKey /\ crServer'[e] = Absent)

\* C5 as stated: on not-found for a valid domain, sync deletes the resource
\* the store holds, creates and updates nothing, and returns success.
C5_NotFoundDeletesAndSucceeds ==
    [][FetchNotFound =>
          /\ wPc' = "synced"
          /\ NoCreateNoUpdate
          /\ crCache[wKey] # Absent => crServer'[wKey] = Absent
          /\ ~wRes'.err]_vars

\* C5 amended: on not-found for a valid domain, sync creates and updates
\* nothing; it returns an error exactly when the store holds the resource and
\* the delete call fails, and then the cluster is left as it was; otherwise
\* it returns success and the resource the store held is gone.
C5_NotFoundDeletesOrReturnsDeleteError ==
    [][FetchNotFound =>
          /\ wPc' = "synced"
          /\ NoCreateNoUpdate
          /\ wRes'.err => (crCache[wKey] # Absent /\ crServer' = crServer)
          /\ ~wRes'.err => (crCache[wKey] # Absent => crServer'[wKey] = Absent)
          /\ wRes'.err <=> wRes'.op = "deletefail"]_vars

\* A not-found answer made sync delete the resource.
C5_Witness ==
    /\ wPc = "synced"
    /\ wRes.fetch \in {"404", "empty"}
    /\ wRes.op = "delete"
    /\ crServer[wKey] = Absent
    /\ crCache[wKey] # Absent

\* C6: no outcome of a sync aborts the worker loop: the worker is never in
\* a crashed state.
C6_WorkerNeverCrashes == wPc # "crashed" /\ runPc # "crashed"

\* Everything stopped and Run returned.
Returned ==
    /\ runPc = "returned"
    /\ shutdown
    /\ wPc = "off"
    /\ updPc # "on"
    /\ resPc # "on"

\* C7: after the stop signal the system goes on until both polling loops and
\* the worker have returned, the queue is shut down and Run has returned: a
\* live controller that was told to stop and can take no further step has
\* returned.
C7_StopEndsInReturn ==
    (stopCh /\ alive /\ ~ENABLED NextStop) => Returned

\* C8: the worker handles no item and neither polling loop runs unless both
\* informers have synced.
C8_NothingBeforeCachesSync ==
    ~(nsSynced /\ crSynced) =>
        /\ wPc = "off"
        /\ wKey = NoName
        /\ wRes = NoResult
        /\ updPc = "off"
        /\ resPc = "off"
        /\ runPc \in {"new", "waitSync", "returned"}

\* Both caches synced, the loops run and the worker has synced an item.
C8_Witness ==
    /\ nsSynced /\ crSynced
    /\ wPc = "synced"
    /\ wRes.valid
    /\ updPc = "on"
    /\ resPc = "on"

\* The controller (its informers included) can take no further step.
Halted == ~ENABLED (Controller \/ \E n \in Namespaces : NsEvent(n))

MapsToLiveNamespace(d) == \E n \in nsServer : NamespaceToDomain(n) = d

\* C9: every domain that maps to a live namespace and exists upstream
\* eventually has a resource equal to the upstream snapshot: where the
\* controller can take no further step, these resources are there and equal.
C9_HaltedMeansConsistent ==
    Halted =>
        \A d \in Domains :
            (MapsToLiveNamespace(d) /\ zms[d] # Absent) =>
                /\ crServer[d] # Absent
                /\ crServer[d].spec = zms[d].roles

Delegates(a, b) ==
    /\ zms[a] # Absent
    /\ \E i \in 1..Len(zms[a].roles) : zms[a].roles[i] = b

\* C10: when domain a (of a live namespace, or the admin domain) delegates
\* trust upstream to another domain b that exists upstream, eventually both
\* have their resources: where the controller can take no further step, a's
\* resource holds the delegating role and b's resource exists.
C10_HaltedMeansTrustMirrored ==
    Halted =>
        \A a, b \in Domains :
            (/\ MapsToLiveNamespace(a) \/ IsAdminDomain(a)
             /\ a # b
             /\ Delegates(a, b)
             /\ zms[b] # Absent) =>
                /\ crServer[a] # Absent
                /\ b \in TrustDomainIndexFunc(crServer[a])
                /\ crServer[b] # Absent

\* The admission rule judged on the cluster as it is: the domain maps to a
\* namespace that lives, is the admin domain or a system-namespace domain, or
\* a resource of the cluster delegates trust to it.
SatisfiesAdmissionRule(d) ==
    \/ MapsToLiveNamespace(d)
    \/ IsAdminDomain(d)
    \/ d \in GetSystemNSDomains
    \/ d \in TrustTargetsOf(crServer)

\* C11: a domain whose resource is stored and that stops satisfying the
\* admission rule eventually has its resource deleted, at the latest after
\* the next full resync: where the controller can take no further step, no
\* resource is left for a domain outside the admission rule.
C11_HaltedMeansInadmissibleGone ==
    Halted =>
        \A d \in Domains :
            crServer[d] # Absent => SatisfiesAdmissionRule(d)

\* The step took an item that fails validation and ran its sync.
SyncOfInvalid ==
    /\ wPc = "get"
    /\ wKey' # NoName
    /\ ~ValidateDomain(wKey')

DiffersOnlyInSignatures(a, b) ==
    /\ a.roles = b.roles
    /\ a.policies = b.policies
    /\ a.keyId = b.keyId

\* The step is a call of CreateUpdateAthenzDomain that follows a call that
\* wrote the resource, the store having observed that write.
SecondCallAfterObservedWrite ==
    /\ applyLast.op \in {"create", "update"}
    /\ applyCache = applyStore
    /\ applyCalls' = applyCalls + 1
    /\ applyLast'.op # None

\* C13: of two calls of CreateUpdateAthenzDomain in sequence for a domain, the
\* store having observed the first call's write, the second is a no-op when
\* its snapshot differs from the first's in the signature fields only, and it
\* issues a second write (which replaces the resource unless the cluster
\* refuses the call) when the snapshots differ in the roles, the policies or
\* the key id.
C13_SecondApplyWritesIffContentDiffers ==
    [][SecondCallAfterObservedWrite =>
          IF DiffersOnlyInSignatures(applyLast.snapshot, applyLast'.snapshot)
          THEN /\ applyLast'.op = "skip"
               /\ ~applyLast'.err
               /\ applyStore' = applyStore
          ELSE /\ applyLast'.op \in {"update", "updatefail"}
               /\ applyLast'.op = "update" =>
                     /\ applyStore'.spec = applyLast'.snapshot
                     /\ applyStore'.rv = applyStore.rv + 1]_vars

\* The second call was a no-op although its snapshot carries other signatures
\* than the one the first call wrote.
C13_Witness ==
    /\ applyCalls = 2
    /\ applyLast.op = "skip"
    /\ applyStore.rv = 2
    /\ applyStore.msg = NoMsg
    /\ applyStore.spec # applyLast.snapshot

\* The write of the sync was refused: the update as based on a stale resource
\* version, or the create as of a resource that exists while the store holds
\* no copy of it.
RefusedWrite(res) == res.op \in {"conflict", "exists"}

\* C14: a write that is refused as stale (a conflict on the update, or an
\* already-exists on the create with no copy in the store) leaves the
\* cluster's resources untouched and sync returns the error; the worker then
\* puts the domain back on the queue for a retry, as long as this is not the
\* failure that exhausts the item's retries.
C14_RefusedWriteIsRetried ==
    [][/\ (wPc = "fetch" /\ wPc' # "fetch" /\ RefusedWrite(wRes')) =>
             /\ wPc' = "synced"
             /\ wRes'.err
             /\ crServer' = crServer
       /\ (/\ wPc = "synced" /\ wPc' = "get"
           /\ RefusedWrite(wRes)
           /\ ~shutdown
           /\ attempts[wKey] + 1 < workerQueueRetry) =>
             wKey \in queue']_vars

\* The step is a call of CreateUpdateAthenzDomain.
CreateUpdateCalled ==
    /\ applyCalls' = applyCalls + 1
    /\ applyLast'.op # None

SuccessfulSync ==
    /\ wPc = "fetch"
    /\ wPc' = "synced"
    /\ wRes'.fetch = "ok"
    /\ ~wRes'.err

\* The cascade rule for the sync of d and a domain t.
CascadeRule(d, t) ==
    /\ t # NoTrust
    /\ \E i \in 1..Len(zms[d].roles) : zms[d].roles[i] = t
    /\ t # d
    /\ crCache[t] = Absent
    /\ \/ \E n \in nsCache : n = DomainToNamespace(d)
       \/ IsAdminDomain(d)

RECURSIVE GlobMatch(_, _)
GlobMatch(pattern, name) ==
    IF pattern = <<>> THEN name = <<>>
    ELSE IF Head(pattern) = "*"
         THEN \E k \in 0..Len(name) :
                GlobMatch(Tail(pattern), SubSeq(name, k + 1, Len(name)))
         ELSE /\ name # <<>>
              /\ Head(pattern) = "?" \/ Head(pattern) = Head(name)
              /\ GlobMatch(Tail(pattern), Tail(name))

\* ProcessTrustDomain has returned for a trust domain that is cached.
ResolvedCached ==
    /\ trustOut # NoOutput
    /\ trustIn.content \notin {Absent, NotADomain}

\* The assertion delegates the role asked for to a role of the trust domain.
Delegating(assertion) ==
    /\ assertion.action = "assume_role"
    /\ GlobMatch(assertion.resource, trustIn.roleName)
    /\ \E i \in 1..Len(trustIn.content.roles) :
          trustIn.content.roles[i].name = assertion.role

RoleNamed(name) ==
    CHOOSE role \in {trustIn.content.roles[i] : i \in 1..Len(trustIn.content.roles)} :
        role.name = name

\* One hop: the role's members, none when the role delegates further.
OneHop(role) == IF role.trust = NoTrust THEN role.members ELSE <<>>

\* C17 as stated: whenever the cached trust domain has an assume_role
\* assertion whose resource pattern matches the role name and whose role is
\* defined in the domain, ProcessTrustDomain returns that role's member list,
\* or the empty list when that role has a trust target.
C17_AnyDelegatingAssertionDecides ==
    ResolvedCached =>
        \A p \in 1..Len(trustIn.content.policies) :
            \A k \in 1..Len(trustIn.content.policies[p]) :
                LET assertion == trustIn.content.policies[p][k]
                IN  Delegating(assertion) =>
                        trustOut.members = OneHop(RoleNamed(assertion.role))

\* The positions (policy, assertion) of the delegating assertions, and their
\* order.
DelegatingAt ==
    { pk \in (1..2) \X (1..2) :
        /\ pk[1] <= Len(trustIn.content.policies)
        /\ pk[2] <= Len(trustIn.content.policies[pk[1]])
        /\ Delegating(trustIn.content.policies[pk[1]][pk[2]]) }

Before(a, b) == a[1] < b[1] \/ (a[1] = b[1] /\ a[2] <= b[2])

\* C17 amended: the first such assertion, in the order of the policies and of
\* each policy's assertions, decides: ProcessTrustDomain returns the member
\* list of its role, or the empty list when that role has a trust target (no
\* second hop); without such an assertion it returns the empty list.
C17_FirstDelegatingAssertionDecides ==
    ResolvedCached =>
        /\ ~trustOut.err
        /\ IF DelegatingAt = {}
           THEN trustOut.members = <<>>
           ELSE LET first == CHOOSE a \in DelegatingAt : \A b \in DelegatingAt : Before(a, b)
                    assertion == trustIn.content.policies[first[1]][first[2]]
                IN  trustOut.members = OneHop(RoleNamed(assertion.role))

\* Two assertions delegate the role to different roles of the trust domain,
\* and the call returned the members of the first one's role.
C17_Witness ==
    /\ ResolvedCached
    /\ Cardinality(DelegatingAt) = 2
    /\ trustOut.members # <<>>
    /\ \E a, b \in DelegatingAt :
          trustIn.content.policies[a[1]][a[2]].role #
              trustIn.content.policies[b[1]][b[2]].role

\* C18: ProcessTrustDomain returns an error exactly when the store has no
\* entry for the trust domain or the entry is not an AthenzDomain, and then
\* the list is empty; otherwise it returns no error, and the empty list when
\* no assertion delegates the role.
C18_ErrorIffNotCached ==
    trustOut # NoOutput =>
        /\ trustOut.err <=> trustIn.content \in {Absent, NotADomain}
        /\ trustOut.err => trustOut.members = <<>>
        /\ (~trustOut.err /\ DelegatingAt = {}) => trustOut.members = <<>>

\* The call for a domain the store does not hold has returned the error.
C18_Witness ==
    /\ trustOut # NoOutput
    /\ trustIn.content = Absent
    /\ trustOut.err
    /\ trustOut.members = <<>>

\* C19: every When call, made at time now with the cursor (currentDelay) it
\* finds, returns 0 and sets the cursor to now if now > cursor + interval,
\* and otherwise advances the cursor by the interval and returns cursor - now;
\* each call finds the cursor the call before it left; calls made at one
\* instant, the first of them after an idle period, return 0, interval,
\* 2 * interval, ... in their order; and a call made when the cursor plus the
\* interval has passed returns 0.
C19_DelayRule ==
    /\ \A i \in 1..Len(limLog) :
          LET e == limLog[i]
          IN  /\ IF e.at > e.before + delayInterval
                 THEN e.delay = 0 /\ e.after = e.at
                 ELSE e.after = e.before + delayInterval /\ e.delay = e.after - e.at
              /\ e.before = IF i = 1 THEN 0 ELSE limLog[i - 1].after
              /\ e.at >= e.before + delayInterval => e.delay = 0
    /\ currentDelay = IF limLog = <<>> THEN 0 ELSE limLog[Len(limLog)].after
    /\ \A i, j \in 1..Len(limLog) :
          (/\ i <= j
           /\ limLog[i].at > limLog[i].before + delayInterval
           /\ \A m \in i..j : limLog[m].at = limLog[i].at) =>
              limLog[j].delay = (j - i) * delayInterval

\* Three calls at one instant returned 0, one interval and two intervals, and
\* a fourth call three intervals later returned 0.
C19_Witness ==
    /\ Len(limLog) = 4
    /\ limLog[1].at > limLog[1].before + delayInterval
    /\ limLog[2].at = limLog[1].at
    /\ limLog[3].at = limLog[1].at
    /\ limLog[4].at = limLog[1].at + 3 * delayInterval
    /\ limLog[1].delay = 0
    /\ limLog[2].delay = delayInterval
    /\ limLog[3].delay = 2 * delayInterval
    /\ limLog[4].delay = 0

\* The instant a call admits its item: the call's time plus the delay returned.
AdmittedAt(e) == e.at + e.delay

\* C20: in every interleaving of the threads' When calls, every delay
\* returned is non-negative and the admission instants of any two calls are
\* at least one interval apart.
C20_AdmissionsOneIntervalApart ==
    /\ \A i \in 1..Len(limLog) : limLog[i].delay >= 0
    /\ \A i, j \in 1..Len(limLog) :
          i < j => AdmittedAt(limLog[j]) - AdmittedAt(limLog[i]) >= delayInterval

\* Two threads called When at one instant, and a call followed that was made
\* before the cursor had passed: the three admissions are one interval apart.
C20_Witness ==
    /\ Len(limLog) >= 3
    /\ limLog[1].by # limLog[2].by
    /\ limLog[1].at = limLog[2].at
    /\ limLog[3].at > limLog[2].at
    /\ AdmittedAt(limLog[2]) = AdmittedAt(limLog[1]) + delayInterval
    /\ AdmittedAt(limLog[3]) = AdmittedAt(limLog[2]) + delayInterval

\* C21: for every item, NumRequeues(item) is the number of When calls made for
\* it since its last Forget (since NewRateLimiter when it was never forgotten),
\* 0 for an item never passed to When; a Forget(item) changes that item's
\* counter only, not currentDelay and no other item's counter; NumRequeues
\* changes neither.
C21_CounterCountsWhenSinceForget ==
    /\ [](\A item \in Domains : NumRequeues(failures, item) = limSince[item])
    /\ [][/\ \A th \in Threads, item \in LimiterItems :
                LimiterForget(th, item) =>
                    /\ NumRequeues(failures', item) = 0
                    /\ \A other \in Domains \ {item} :
                           NumRequeues(failures', other) = NumRequeues(failures, other)
                    /\ currentDelay' = currentDelay
          /\ \A th \in Threads, item \in LimiterItems :
                LimiterNumRequeues(th, item) =>
                    /\ failures' = failures
                    /\ currentDelay' = currentDelay]_vars

\* Three When calls, one of them for DomA, and DomA forgotten since.
C21_Witness ==
    /\ Len(limLog) = 3
    /\ limLock = Free
    /\ NumRequeues(failures, DomA) = 0
    /\ NumRequeues(failures, DomT) = 2

\* The admission rule judged on the controller's two stores: the domain is the
\* mapped domain of a namespace in the namespace store, the admin domain, a
\* system-namespace domain, or a trust target of a resource in the store.
AdmissionRuleOnStores(d) ==
    \/ \E n \in nsCache : NamespaceToDomain(n) = d
    \/ IsAdminDomain(d)
    \/ d \in GetSystemNSDomains
    \/ IsTrustDomain(d)

\* C22: ValidateDomain(d) is true exactly when d is the mapped domain of an
\* active namespace, the admin domain, a system-namespace domain or a current
\* trust target of a stored resource, and false for every other domain, those
\* that only start with the admin domain included.
C22_ValidateDomainIsAdmissionRule ==
    \A d \in Domains : ValidateDomain(d) <=> AdmissionRuleOnStores(d)

\* The domains a step admits to the queue.
Enqueued == queue' \ queue

\* C23: the incremental loop enqueues a domain the list-changed call returned
\* only if the domain passes the admission rule at that moment; a returned
\* domain that fails the rule is never enqueued by this loop.
C23_PollEnqueuesOnlyAdmitted ==
    [][UpdateCron => \A d \in Enqueued : AdmissionRuleOnStores(d)]_vars

\* The ConfigMap holding a cursor.
Persisted(cursor) == [latest_contact |-> cursor]

\* C24 as stated: when the list-changed call succeeds with a non-empty cursor,
\* the stored cursor becomes the returned cursor and the sink holds that value
\* (the record created first if absent); when the call fails or returns an
\* empty cursor, the stored cursor and the sink are unchanged, and on failure
\* nothing is enqueued.
C24_CursorAdvancedAndPersisted ==
    [][\A in \in PollInputs :
          requestCall(in.callFail, in.noEtag, in.getFail, in.createFail, in.updateFail) =>
              LET r == GetSignedDomains(etag, in.callFail, in.noEtag)
              IN  /\ (~r.err /\ r.etag # NoCursor) =>
                         /\ etag' = r.etag
                         /\ sink' = Persisted(r.etag)
                  /\ (r.err \/ r.etag = NoCursor) =>
                         /\ etag' = etag
                         /\ sink' = sink
                  /\ r.err => queue' = queue /\ failures' = failures]_vars

\* C24 amended: as stated, but the sink holds the returned cursor only when it
\* accepts the write (the record exists or its creation succeeds, and the
\* update succeeds); when it refuses, the stored cursor advances all the same
\* and the sink keeps what it held, or holds the record just created with an
\* empty value.
C24_CursorAdvancedAndPersistedIfAccepted ==
    [][\A in \in PollInputs :
          requestCall(in.callFail, in.noEtag, in.getFail, in.createFail, in.updateFail) =>
              LET r == GetSignedDomains(etag, in.callFail, in.noEtag)
                  accepted == ~in.updateFail /\ (sink # Absent \/ ~in.createFail)
              IN  /\ (~r.err /\ r.etag # NoCursor) =>
                         /\ etag' = r.etag
                         /\ accepted => sink' = Persisted(r.etag)
                         /\ ~accepted => sink' \in {sink, Persisted(NoCursor)}
                  /\ (r.err \/ r.etag = NoCursor) =>
                         /\ etag' = etag
                         /\ sink' = sink
                  /\ r.err => queue' = queue /\ failures' = failures]_vars

\* A poll has returned the time of a change made during the run, and the sink,
\* absent at the start or holding an older value, holds it.
C24_Witness ==
    /\ cronPc = "on"
    /\ etag = <<upNow>>
    /\ upNow > 2 * Second
    /\ sink = Persisted(etag)

\* The change of d that upstream holds is in the mirror: the resource carries
\* the snapshot of that modification.
Applied(d) == crServer[d] # Absent /\ crMod[d] = upMod[d]

\* The cursor the sink holds, NoCursor when it holds none.
SinkCursor == IF sink = Absent THEN NoCursor ELSE sink.latest_contact

AdminSystemDomains ==
    (IF adminDomain # <<>> THEN {adminDomain} ELSE {}) \cup GetSystemNSDomains

\* What a full-resync pass is to enqueue.
ResyncDomains ==
    { NamespaceToDomain(n) : n \in nsCache }
    \cup AdminSystemDomains
    \cup { t \in idxVals : crCache[t] # Absent }

\* A step calls AddRateLimited for the domains of the set and for no other:
\* their counters grow (up to the counter's bound) and they are on the queue
\* after it, unless the queue is shut down; no other counter and no other
\* item's place changes.
AddsExactly(S) ==
    /\ queue' = IF shutdown THEN queue ELSE queue \cup S
    /\ \A d \in Domains :
          IF d \in S
          THEN NumRequeues(failures', d) >= Min(NumRequeues(failures, d) + 1, MaxRequeues)
          ELSE NumRequeues(failures', d) = NumRequeues(failures, d)

Stored == {d \in Domains : crCache[d] # Absent}

LatestStored == CHOOSE t \in {crMod[d] : d \in Stored} : \A d \in Stored : crMod[d] <= t

\* C27: LatestCursor returns the maximum modification time over the stored
\* resources, formatted as RFC3339, and the empty string when the store is
\* empty; at startup, after the cache sync and before the incremental loop
\* starts, the loop's cursor is set to this value.
C27_StartCursorIsLatestStored ==
    /\ [](GetLatestTimestamp = IF Stored = {} THEN NoCursor ELSE RFC3339(LatestStored))
    /\ [](cronPc = "new" => etag = NoCursor)
    /\ [][CronStart => etag' = IF Stored = {} THEN NoCursor ELSE RFC3339(LatestStored)]_vars

\* The loop has started with the cursor of a store of two resources, the
\* later of them modified within the second: the cursor is that second.
\* Nothing was polled since.
C27_Witness ==
    /\ cronPc = "on"
    /\ Stored = CronDomains
    /\ crMod[DomT] = Second
    /\ crMod[DomA] = Second + 1
    /\ etag = <<Second>>
    /\ queue = {adminDomain}

\* The roles of a stored object that delegate to d.
RolesWithTrust(obj, d) == { i \in 1..Len(obj.spec) : obj.spec[i] = d }

\* C28: after any sequence of adds, updates and deletes of stored resources,
\* IsTrustDomain(d) is true if and only if some resource now stored has a role
\* whose trust is d; a resource contributes one index value for each role with
\* a trust and none for a role without one.
C28_IndexFollowsStore ==
    /\ \A d \in Domains :
          IsTrustDomainByIndex(d) <=>
              \E key \in Domains : crCache[key] # Absent /\ RolesWithTrust(crCache[key], d) # {}
    /\ \A key \in Domains :
          crCache[key] # Absent =>
              /\ Len(TrustDomainIndexList(crCache[key]))
                    = Cardinality({ i \in 1..Len(crCache[key].spec) :
                                      crCache[key].spec[i] # NoTrust })
              /\ \A v \in IndexValues :
                    key \in ByIndex(v) <=> RolesWithTrust(crCache[key], v) # {}

\* The index has held two values; after updates and deletes one resource
\* still delegates to the first, with two roles, and none to the second.
C28_Witness ==
    /\ idxVals = {DomT, DomX}
    /\ crCache[DomA] # Absent
    /\ crCache[DomA].spec = <<DomT, DomT>>
    /\ crCache[DomT] = Absent
    /\ crCache[adminDomain] # Absent
    /\ crCache[adminDomain].spec = <<NoTrust>>
    /\ IsTrustDomainByIndex(DomT)
    /\ ~IsTrustDomainByIndex(DomX)

NoRun(s, run) == \A i \in 1..Len(s) : ~HasPrefix(SubSeq(s, i, Len(s)), run)

\* A namespace name: letters and dashes, no dot, dashes single or double and
\* never first or last.
IsNamespaceName(s) ==
    /\ s # NoName
    /\ NoRun(s, <<".">>)
    /\ NoRun(s, <<"-", "-", "-">>)
    /\ Head(s) # "-"
    /\ s[Len(s)] # "-"

\* A domain name: components of letters and single dashes, joined by dots;
\* no component is empty or starts or ends with a dash.
IsDomainName(s) ==
    /\ s # NoName
    /\ NoRun(s, <<"-", "-">>)
    /\ NoRun(s, <<".", ".">>)
    /\ NoRun(s, <<".", "-">>)
    /\ NoRun(s, <<"-", ".">>)
    /\ Head(s) \notin {"-", "."}
    /\ s[Len(s)] \notin {"-", "."}

\* C29: a namespace of letters, digits, single and double dashes that is not
\* in the system list comes back unchanged from NamespaceToDomain followed by
\* DomainToNamespace; a namespace of the system list maps to <admin>.<ns> and
\* back to itself.
C29_NamespaceRoundTrip ==
    (mapOut # NoOutput /\ mapOut.from = "namespace") =>
        /\ (IsNamespaceName(mapIn.a) /\ ~isSystemNamespace(mapIn.a))
              => mapOut.back = mapIn.a
        /\ isSystemNamespace(mapIn.a)
              => /\ mapOut.domain = adminDomain \o <<".">> \o mapIn.a
                 /\ mapOut.back = mapIn.a

\* C30: over domain names of letters, digits, single dashes and dots, two
\* distinct domains never map to the same namespace, and a domain comes back
\* unchanged from DomainToNamespace followed by NamespaceToDomain.
C30_DomainToNamespaceBijective ==
    (mapOut # NoOutput /\ mapOut.from = "domain") =>
        /\ (IsDomainName(mapIn.a) /\ IsDomainName(mapIn.b) /\ mapOut.nsA = mapOut.nsB)
              => mapIn.a = mapIn.b
        /\ IsDomainName(mapIn.a) => mapOut.back = mapIn.a

\* The escaping rule alone: a dash becomes two dashes, a dot becomes a dash.
EscapingRule(domain) ==
    Replace(Replace(domain, <<"-">>, <<"-", "-">>), <<".">>, <<"-">>)

\* C31: DomainToNamespace strips the admin prefix only from <admin>.<ns> with
\* ns in the configured system list; every other domain, those that begin with
\* the admin domain and the admin domain itself included, is mapped by the
\* escaping rule alone.
C31_PrefixStrippedOnlyForSystemDomains ==
    (mapOut # NoOutput /\ mapOut.from = "domain" /\ IsDomainName(mapIn.a)) =>
        mapOut.nsA =
            IF \E ns \in systemNamespaces : mapIn.a = adminDomain \o <<".">> \o ns
            THEN CHOOSE ns \in systemNamespaces : mapIn.a = adminDomain \o <<".">> \o ns
            ELSE EscapingRule(mapIn.a)

\* A resource for d is created or its content replaced in this step.
Written(d) == crServer'[d] # crServer[d] /\ crServer'[d] # Absent

\* C32: a namespace of the exclude set is never synced: no step creates or
\* updates the resource of its mapped domain; and IsNamespaceExcluded is true
\* exactly of the members of the set.
C32_ExcludedNeverSynced ==
    /\ [](\A n \in Namespaces \cup excludeNamespaces :
            IsNamespaceExcluded(n) <=> n \in excludeNamespaces)
    /\ [][\A n \in excludeNamespaces : ~Written(NamespaceToDomain(n))]_vars

\* C38: with namespaces and upstream content unchanging and every call
\* succeeding, the controller eventually stops writing: from some point on no
\* step changes a resource of the cluster, whatever events its own writes
\* caused and however often the full resync runs.
C38_EventuallyNoWrites ==
    <>[][/\ crServer' = crServer
         /\ wPc' = "synced" => wRes'.op \in {"skip", "none"}]_vars

\* The stale resource was brought up to date, the trust domain and the admin
\* domain were mirrored, every event was delivered and the queue is drained.
C38_Witness ==
    /\ nsServer = {NsA}
    /\ crServer[DomA] # Absent
    /\ crServer[DomA].spec = <<DomT>>
    /\ crServer[DomT] # Absent
    /\ crServer[adminDomain] # Absent
    /\ crCache = crServer
    /\ crDirty = {}
    /\ queue = {}
    /\ wPc = "get"

\* The domain of a live namespace, or the admin domain.
LiveDomain(d) == MapsToLiveNamespace(d) \/ IsAdminDomain(d)

\* The cluster holds a resource for d, d is no live domain, and no resource
\* of a live domain delegates trust to d.
Ungrounded(d) ==
    /\ crServer[d] # Absent
    /\ ~LiveDomain(d)
    /\ ~\E a \in Domains :
          /\ LiveDomain(a)
          /\ crServer[a] # Absent
          /\ d \in TrustDomainIndexFunc(crServer[a])

\* C40: a resource whose domain is neither a live namespace's domain nor the
\* admin domain is eventually deleted once no live or admin domain delegates
\* trust to it; a resource that delegates to its own domain does not keep
\* itself alive.
C40_UngroundedEventuallyDeleted ==
    \A d \in Domains : Ungrounded(d) ~> ~Ungrounded(d)

\* C33: a call to the upstream service that never returns stalls one worker
\* slot only: while the fetch for one domain is outstanding, an item that
\* waits in the queue is eventually handed to a worker (or the fetch returns).
C33_HungFetchStallsOneSlot ==
    \A d \in Domains :
        (wPc = "fetch" /\ d \in queue) ~> (d \notin queue \/ wPc # "fetch")

\* C34: the queue holds at most one pending occurrence of an item and none of
\* an item in processing; an item admitted while it is processed is back in
\* the list exactly once when it is marked done; and every item the worker
\* got is marked done exactly once, on the success, the error and the
\* non-string path.
C34_QueueCoalesces ==
    /\ [](\A item \in WqItems :
            /\ Occurrences(wq.queue, item) <= 1
            /\ item \in wq.processing => Occurrences(wq.queue, item) = 0
            /\ wqHist.gets[item] =
                   wqHist.dones[item] + (IF item \in wq.processing THEN 1 ELSE 0)
            /\ item \in wq.processing <=>
                   (wqWorker.pc = "sync" /\ wqWorker.key = item))
    /\ [][\A item \in WqItems :
            (item \in wq.processing /\ item \notin wq'.processing) =>
                Occurrences(wq'.queue, item) = (IF item \in wq.dirty THEN 1 ELSE 0)]_vars

\* A name is in its second processing and was admitted again meanwhile, after
\* a non-string key was marked done.
C34_Witness ==
    /\ wqWorker = [pc |-> "sync", key |-> Key(DomA)]
    /\ wqHist.gets[Key(DomA)] = 2
    /\ wqHist.dones[Key(DomA)] = 1
    /\ Key(DomA) \in wq.dirty
    /\ wqHist.dones[NotAString] = 1

\* C35: every name admitted to the queue is eventually handed to a sync that
\* starts after the admission: where the controller can take no further step,
\* no admitted name is left in the queue.
C35_HaltedMeansQueueDrained == Halted => queue = {}

\* The event of the step, where the step delivers one.
Delivered(ev) == wqHist'.adds # wqHist.adds /\ evLast'.ev = ev

\* No key can be derived from the object of the event.
Keyless(ev) ==
    \/ ev.obj.shape = "bare"
    \/ ev.obj.shape = "tombstone" /\ ev.type # "delete"

\* The name the event stands for.
NameOf(ev) == IF ev.handler = "ns" THEN NamespaceToDomain(ev.obj.name) ELSE ev.obj.name

\* C36 (as stated): a watch event whose object yields no key, or that is a
\* deletion tombstone holding an unexpected object, enqueues nothing and
\* crashes nothing; a deletion tombstone holding the expected object enqueues
\* the deleted object's name.
C36_MalformedEventDropped ==
    [][\A ev \in Events : Delivered(ev) =>
          /\ ~evLast'.index.panic
          /\ (Keyless(ev) \/ (ev.obj.shape = "tombstone" /\ ev.obj.holds = "bare")) =>
                wq' = wq
          /\ (ev.type = "delete" /\ ev.obj.shape = "tombstone" /\ ev.obj.holds = "object") =>
                Key(NameOf(ev)) \in wq'.waiting]_vars

\* C36 (amended): a watch event whose object yields no key enqueues nothing
\* and crashes nothing; a deletion tombstone enqueues the name it records,
\* whatever object it holds; the index function gives no value for an
\* unexpected object or a tombstone holding one.
C36_KeylessEventDropped ==
    [][\A ev \in Events : Delivered(ev) =>
          /\ ~evLast'.index.panic
          /\ Keyless(ev) => wq' = wq
          /\ (ev.type = "delete" /\ ev.obj.shape = "tombstone") =>
                Key(NameOf(ev)) \in wq'.waiting
          /\ (ev.obj.shape = "bare" \/ ev.obj.holds = "bare") =>
                evLast'.index.values = <<>>]_vars

\* The deletion tombstone of a resource, holding an unexpected object, was
\* delivered, and its name waits in the queue.
C36_Witness ==
    /\ evLast.ev.handler = "cr"
    /\ evLast.ev.type = "delete"
    /\ evLast.ev.obj.shape = "tombstone"
    /\ evLast.ev.obj.holds = "bare"
    /\ Key(evLast.ev.obj.name) \in wq.waiting
    /\ ~evLast.index.panic

\* C37: no step of the controller (startup, the informers and their handlers,
\* both polling loops, sync, shutdown) changes what the external service
\* holds.
C37_UpstreamOnlyRead == [][zms' = zms]_vars

\* A sync met not-found for a domain whose resource the store still holds
\* and deleted the resource: upstream still holds no such domain.
C37_Witness ==
    /\ wPc = "synced"
    /\ wRes.fetch = "404"
    /\ wRes.op = "delete"
    /\ crCache[wKey] # Absent
    /\ crServer[wKey] = Absent
    /\ zms[wKey] = Absent

\* C39: when a third party deletes or alters the resource of a domain that
\* passes the admission rule and exists upstream, the resource is eventually
\* restored to the upstream content: where the controller can take no further
\* step, every such domain whose change the watch has delivered has its
\* resource, equal to upstream.
C39_HaltedMeansHealed ==
    Halted =>
        \A d \in tampered :
            (d \notin crDirty /\ SatisfiesAdmissionRule(d) /\ zms[d] # Absent) =>
                /\ crServer[d] # Absent
                /\ crServer[d].spec = zms[d].roles

====
